---- MODULE Spec2Model ----
\* Verification model of tendant/yaml-helm-pipeline:
\*   internal/extractor/service.go  (key extraction and YAML diff)
\*   internal/api/routes.go         (preview / commit pipeline)
\*   internal/git/service.go        (clone, commit and push)
EXTENDS Integers, Sequences, FiniteSets, TLC

\* ------------------------------------------------------------------------
\* Bounds of the model
\* ------------------------------------------------------------------------
\* number of distinct string scalars a document may carry
MaxScalar == 2

\* ------------------------------------------------------------------------
\* YAML documents.  Text (keys, paths) is a sequence of one-character
\* strings so that path composition with "." is real concatenation.
\* ------------------------------------------------------------------------
KeyA == <<"a">>
KeyB == <<"b">>
KeyAB == <<"a", ".", "b">>
Dot == <<".">>

TopKeys == {KeyA, KeyAB}
InnerKeys == {KeyB}
KeyUniverse == TopKeys \cup InnerKeys

\* YAML nodes of a document
StrNode(s) == [kind |-> "scalar", tag |-> "str", v |-> s]
IntNode(s) == [kind |-> "scalar", tag |-> "int", v |-> s]
FloatNode(s) == [kind |-> "scalar", tag |-> "float", v |-> s]
SeqNode(s) == [kind |-> "sequence", s |-> s]
\* allStr: every key of the mapping node is a string scalar
MapNode(allStr, m) == [kind |-> "mapping", allStr |-> allStr, m |-> m]

ScalarNodes == {StrNode("s" \o ToString(i)) : i \in 1..MaxScalar}
SeqNodes == {SeqNode(<<IntNode("1"), IntNode("2")>>), SeqNode(<<IntNode("2"), IntNode("1")>>)}
LeafNodes == ScalarNodes \cup SeqNodes

\* partial functions from a key set to a value set
PartialFns(K, V) == UNION {[D -> V] : D \in SUBSET K}

InnerMapNodes == {MapNode(TRUE, m) : m \in PartialFns(InnerKeys, LeafNodes)}
\* a nested mapping with a non-string key (for instance  1: x )
IntKeyMapNodes == {MapNode(FALSE, <<"1">> :> v) : v \in ScalarNodes}
TopValues == LeafNodes \cup InnerMapNodes \cup IntKeyMapNodes

\* Byte contents handed to yaml.Unmarshal.  top says what the first document
\* of the bytes is; fmt is the layout (whitespace, comments) that parsing drops.
MappingBytes(m, f) == [top |-> "mapping", m |-> m, fmt |-> f]
EmptyBytes == [top |-> "empty", m |-> <<>>, fmt |-> 1]
OtherBytes == [top |-> "other", m |-> <<>>, fmt |-> 1]
InvalidBytes == [top |-> "invalid", m |-> <<>>, fmt |-> 1]

MappingInputs == {MappingBytes(m, 1) : m \in PartialFns(TopKeys, TopValues)}
\* the floats YAML writes .nan and .inf, as a value and as a sequence element
NonFiniteNodes == {FloatNode(".nan"), FloatNode(".inf")}
NonFiniteInputs ==
  {MappingBytes(KeyA :> n, 1) : n \in NonFiniteNodes}
    \cup {MappingBytes(KeyA :> SeqNode(<<n>>), 1) : n \in NonFiniteNodes}
Inputs == MappingInputs \cup NonFiniteInputs \cup {EmptyBytes, OtherBytes, InvalidBytes}

\* ------------------------------------------------------------------------
\* yaml.Unmarshal into map[string]interface{} (gopkg.in/yaml.v3)
\* ------------------------------------------------------------------------
\* Go values produced by the decoder
GoMap(m) == [t |-> "map[string]interface{}", m |-> m]
GoGenMap(m) == [t |-> "map[interface{}]interface{}", m |-> m]
GoSlice(s) == [t |-> "[]interface{}", s |-> s]
GoScalar(tag, v) == [t |-> tag, v |-> v]

RECURSIVE Decode(_)
\* a node decoded into interface{}: a mapping becomes map[string]interface{}
\* only when all its keys are strings, map[interface{}]interface{} otherwise
Decode(n) ==
  CASE n.kind = "mapping" ->
         IF n.allStr THEN GoMap([k \in DOMAIN n.m |-> Decode(n.m[k])])
                     ELSE GoGenMap([k \in DOMAIN n.m |-> Decode(n.m[k])])
    [] n.kind = "sequence" -> GoSlice([i \in DOMAIN n.s |-> Decode(n.s[i])])
    [] OTHER -> GoScalar(n.tag, n.v)

\* yaml.Unmarshal(content, &data) with data a map[string]interface{}:
\* the top-level keys are decoded into strings; an empty document leaves
\* data nil without error; a non-mapping or malformed document is an error
Unmarshal(content) ==
  CASE content.top = "mapping" ->
         [err |-> FALSE, data |-> [k \in DOMAIN content.m |-> Decode(content.m[k])]]
    [] content.top = "empty" -> [err |-> FALSE, data |-> <<>>]
    [] OTHER -> [err |-> TRUE, data |-> <<>>]

\* ------------------------------------------------------------------------
\* internal/extractor/service.go
\* ------------------------------------------------------------------------
SentinelSeq == "[...]"
SentinelOther == "..."
Sentinel(s) == [kind |-> "sentinel", s |-> s]
Tree(m) == [kind |-> "tree", m |-> m]

RECURSIVE extractKeysRecursive(_)
\* mutation of extractKeysRecursive: a string scalar is copied into the result
extractKeysRecursive_CopiesScalar(data) ==
  [k \in DOMAIN data |->
     CASE data[k].t = "map[string]interface{}" -> Tree(extractKeysRecursive(data[k].m))
       [] data[k].t = "[]interface{}" -> Sentinel(SentinelSeq)
       [] data[k].t = "str" -> Sentinel(data[k].v)
       [] OTHER -> Sentinel(SentinelOther)]

\* result map filled from data (the result starts empty at every call)
extractKeysRecursive(data) ==
  [k \in DOMAIN data |->
     CASE data[k].t = "map[string]interface{}" -> Tree(extractKeysRecursive(data[k].m))
       [] data[k].t = "[]interface{}" -> Sentinel(SentinelSeq)
       [] OTHER -> Sentinel(SentinelOther)]

ExtractKeys(yamlContent) ==
  LET u == Unmarshal(yamlContent) IN
  IF u.err THEN [err |-> TRUE, keys |-> <<>>]
  ELSE [err |-> FALSE, keys |-> extractKeysRecursive(u.data)]

\* ------------------------------------------------------------------------
\* encoding/json Marshal as used by the equality checks.  The callers drop
\* the error, so a value that cannot be encoded yields the empty string.
\* ------------------------------------------------------------------------
\* json.Marshal writes the keys of a map in sorted order
KeySorted == <<KeyA, KeyAB, KeyB>>

RECURSIVE Concat(_)
Concat(ss) == IF ss = <<>> THEN "" ELSE Head(ss) \o Concat(Tail(ss))

RECURSIVE Join(_)
Join(ss) == IF ss = <<>> THEN ""
            ELSE IF Len(ss) = 1 THEN Head(ss)
            ELSE Head(ss) \o "," \o Join(Tail(ss))

RECURSIVE Marshal(_)
Marshal(val) ==
  CASE val.t = "str" -> "\"" \o val.v \o "\""
    [] val.t = "int" -> val.v
    [] val.t = "float" -> IF val.v \in {".nan", ".inf", "-.inf"} THEN "" ELSE val.v
    [] val.t = "null" -> "null"
    [] val.t = "[]interface{}" ->
         LET parts == [i \in DOMAIN val.s |-> Marshal(val.s[i])] IN
         IF \E i \in DOMAIN parts : parts[i] = "" THEN ""
         ELSE "[" \o Join(parts) \o "]"
    [] val.t = "map[string]interface{}" ->
         LET ks == SelectSeq(KeySorted, LAMBDA k : k \in DOMAIN val.m)
             parts == [i \in DOMAIN ks |->
                         IF Marshal(val.m[ks[i]]) = "" THEN ""
                         ELSE "\"" \o Concat(ks[i]) \o "\":" \o Marshal(val.m[ks[i]])]
         IN IF \E i \in DOMAIN parts : parts[i] = "" THEN ""
            ELSE "{" \o Join(parts) \o "}"
    \* map[interface{}]interface{} and NaN are unsupported by encoding/json
    [] OTHER -> ""

\* mutation of compareArrays: the final return says false
compareArrays_ReturnsFalse(a, b) ==
  IF Len(a) # Len(b) THEN FALSE
  ELSE \A i \in DOMAIN a : Marshal(a[i]) # Marshal(b[i])

\* compareArrays compares two arrays for equality
compareArrays(a, b) ==
  IF Len(a) # Len(b) THEN FALSE
  ELSE \A i \in DOMAIN a : Marshal(a[i]) = Marshal(b[i])

\* The diff map is written by assignments diff[path] = label.  findDifferences
\* is modelled by the sequence of these assignments in execution order;
\* order is the iteration order Go's runtime picks for the maps.
Assign(path, label) == <<[path |-> path, label |-> label]>>

PathOf(prefix, k) == IF prefix # <<>> THEN prefix \o Dot \o k ELSE k

RECURSIVE findDifferences(_, _, _, _)
RECURSIVE newLoop(_, _, _, _, _)

\* first loop of findDifferences: for k, newVal := range newData
newLoop(ks, oldData, newData, prefix, order) ==
  IF ks = <<>> THEN <<>>
  ELSE
    LET k == Head(ks)
        path == PathOf(prefix, k)
        newVal == newData[k]
        step ==
          IF k \notin DOMAIN oldData THEN Assign(path, "added")
          ELSE
            LET oldVal == oldData[k] IN
            CASE newVal.t = "map[string]interface{}" ->
                   IF oldVal.t = "map[string]interface{}"
                   THEN findDifferences(oldVal.m, newVal.m, path, order)
                   ELSE Assign(path, "changed")
              [] newVal.t = "[]interface{}" ->
                   IF oldVal.t # "[]interface{}" \/ ~compareArrays(oldVal.s, newVal.s)
                   THEN Assign(path, "changed")
                   ELSE <<>>
              [] OTHER ->
                   IF Marshal(oldVal) # Marshal(newVal)
                   THEN Assign(path, "changed")
                   ELSE <<>>
    IN step \o newLoop(Tail(ks), oldData, newData, prefix, order)

\* mutation of oldLoop: every key of old is reported removed
oldLoop_All(ks, newData, prefix) ==
  [i \in DOMAIN ks |-> [path |-> PathOf(prefix, ks[i]), label |-> "removed"]]

\* second loop of findDifferences: for k := range oldData
oldLoop(ks, newData, prefix) ==
  LET missing == SelectSeq(ks, LAMBDA k : k \notin DOMAIN newData) IN
  [i \in DOMAIN missing |-> [path |-> PathOf(prefix, missing[i]), label |-> "removed"]]

rangeOf(m, order) == SelectSeq(order, LAMBDA k : k \in DOMAIN m)

findDifferences(oldData, newData, prefix, order) ==
  newLoop(rangeOf(newData, order), oldData, newData, prefix, order)
    \o oldLoop(rangeOf(oldData, order), newData, prefix)

RECURSIVE ApplyAssignments(_, _)
\* the diff map after the assignments ws, starting from diff
ApplyAssignments(diff, ws) ==
  IF ws = <<>> THEN diff
  ELSE ApplyAssignments(
         [p \in DOMAIN diff \cup {Head(ws).path} |->
            IF p = Head(ws).path THEN Head(ws).label ELSE diff[p]],
         Tail(ws))

\* the assignments one CompareYAML call makes, in order
CompareAssignments(oldYAML, newYAML, order) ==
  LET o == Unmarshal(oldYAML)
      n == Unmarshal(newYAML)
  IN IF o.err \/ n.err THEN <<>>
     ELSE findDifferences(o.data, n.data, <<>>, order)

CompareYAML(oldYAML, newYAML, order) ==
  LET o == Unmarshal(oldYAML)
      n == Unmarshal(newYAML)
  IN IF o.err THEN [err |-> TRUE, diff |-> <<>>]
     ELSE IF n.err THEN [err |-> TRUE, diff |-> <<>>]
     ELSE [err |-> FALSE,
           diff |-> ApplyAssignments(<<>>, findDifferences(o.data, n.data, <<>>, order))]

\* every order in which a range loop may visit the keys
IterationOrders(S) == {p \in [1..Cardinality(S) -> S] : \A i, j \in DOMAIN p : i # j => p[i] # p[j]}
Orders == IterationOrders(KeyUniverse)

NoOut == [op |-> "none"]

\* ------------------------------------------------------------------------
\* Loading the configuration (internal/config/config.go)
\* ------------------------------------------------------------------------
\* groups in one configuration file
MaxGroups == 2

ValuesRepo(owner, repo, path, branch) ==
  [Owner |-> owner, Repo |-> repo, Path |-> path, Branch |-> branch]
OutputRepo(owner, repo, path, filename, branch) ==
  [Owner |-> owner, Repo |-> repo, Path |-> path, Filename |-> filename, Branch |-> branch]
ConfigGroup(name, valuesRepos, outputRepo) ==
  [Name |-> name, ValuesRepos |-> valuesRepos, OutputRepo |-> outputRepo]
Config(groups) == [Groups |-> groups]
NoConfig == Config(<<>>)

\* validateConfig, lines 236-258: what makes a group unacceptable
GroupInvalid(group) ==
  \/ group.Name = ""
  \/ Len(group.ValuesRepos) = 0
  \/ \E j \in DOMAIN group.ValuesRepos :
       LET repo == group.ValuesRepos[j] IN
       repo.Owner = "" \/ repo.Repo = "" \/ repo.Path = ""
  \/ group.OutputRepo.Owner = "" \/ group.OutputRepo.Repo = ""

\* mutation of WithDefaults: the defaults are not written
WithDefaults_None(group) == group

\* validateConfig, lines 249-268: the defaults written into the group
WithDefaults(group) ==
  ConfigGroup(group.Name,
              [j \in DOMAIN group.ValuesRepos |->
                 LET repo == group.ValuesRepos[j] IN
                 ValuesRepo(repo.Owner, repo.Repo, repo.Path,
                            IF repo.Branch = "" THEN "main" ELSE repo.Branch)],
              OutputRepo(group.OutputRepo.Owner, group.OutputRepo.Repo, group.OutputRepo.Path,
                         IF group.OutputRepo.Filename = "" THEN "generated.yaml"
                         ELSE group.OutputRepo.Filename,
                         IF group.OutputRepo.Branch = "" THEN "main"
                         ELSE group.OutputRepo.Branch))

\* validateConfig: an error, or the configuration with its defaults applied
validateConfig(config) ==
  IF Len(config.Groups) = 0 THEN [err |-> TRUE, config |-> NoConfig]
  ELSE IF \E i \in DOMAIN config.Groups : GroupInvalid(config.Groups[i])
  THEN [err |-> TRUE, config |-> NoConfig]
  ELSE [err |-> FALSE,
        config |-> Config([i \in DOMAIN config.Groups |-> WithDefaults(config.Groups[i])])]

\* loadConfigFromFile: the file is read, decoded and validated
loadConfigFromFile(file) ==
  IF file.kind = "missing" THEN [err |-> TRUE, config |-> NoConfig]
  ELSE IF file.kind = "unparsable" THEN [err |-> TRUE, config |-> NoConfig]
  ELSE validateConfig(file.config)

\* parseConfigGroupsJSON: the variable is decoded and validated
parseConfigGroupsJSON(cge) ==
  IF cge.kind = "unparsable" THEN [err |-> TRUE, config |-> NoConfig]
  ELSE validateConfig(Config(cge.groups))

\* Text of the prefixed variables: a sequence of separators and name parts
RECURSIVE Split(_, _)
\* strings.Split
Split(s, sep) ==
  LET at == {i \in DOMAIN s : s[i] = sep} IN
  IF at = {} THEN <<s>>
  ELSE LET i == CHOOSE i \in at : \A j \in at : i <= j IN
       <<SubSeq(s, 1, i - 1)>> \o Split(SubSeq(s, i + 1, Len(s)), sep)

RECURSIVE Flatten(_)
Flatten(ss) == IF ss = <<>> THEN "" ELSE Head(ss) \o Flatten(Tail(ss))

RECURSIVE JoinWith(_, _)
\* strings.Join
JoinWith(parts, sep) ==
  IF parts = <<>> THEN ""
  ELSE IF Len(parts) = 1 THEN Flatten(Head(parts))
  ELSE Flatten(Head(parts)) \o sep \o JoinWith(Tail(parts), sep)

\* parseValuesRepoString: "owner/repo:path:branch"
parseValuesRepoString(s) ==
  LET parts == Split(s, ":") IN
  IF Len(parts) < 2 THEN [err |-> TRUE, repo |-> ValuesRepo("", "", "", "")]
  ELSE LET repoPath == Split(parts[1], "/") IN
       IF Len(repoPath) # 2 THEN [err |-> TRUE, repo |-> ValuesRepo("", "", "", "")]
       ELSE [err |-> FALSE,
             repo |-> ValuesRepo(Flatten(repoPath[1]), Flatten(repoPath[2]), Flatten(parts[2]),
                                 IF Len(parts) > 2 THEN Flatten(parts[3]) ELSE "main")]

\* parseOutputRepoString: "owner/repo:path/filename:branch"
parseOutputRepoString(s) ==
  LET parts == Split(s, ":") IN
  IF Len(parts) < 2 THEN [err |-> TRUE, repo |-> OutputRepo("", "", "", "", "")]
  ELSE LET repoPath == Split(parts[1], "/") IN
       IF Len(repoPath) # 2 THEN [err |-> TRUE, repo |-> OutputRepo("", "", "", "", "")]
       ELSE LET pathParts == Split(parts[2], "/")
                filename == Flatten(pathParts[Len(pathParts)])
                path == JoinWith(SubSeq(pathParts, 1, Len(pathParts) - 1), "/")
            IN [err |-> FALSE,
                repo |-> OutputRepo(Flatten(repoPath[1]), Flatten(repoPath[2]), path, filename,
                                    IF Len(parts) > 2 THEN Flatten(parts[3]) ELSE "main")]

\* os.Getenv of CONFIG_GROUP_<i>_<name>; a variable that is not set reads empty
Getenv(env, i, name) ==
  IF i \in DOMAIN env THEN env[i][name] ELSE IF name = "NAME" THEN "" ELSE <<>>

RECURSIVE parseValuesRepos(_, _)
\* the inner loop of parseConfigGroupsFromPrefixedEnv, from VALUES_REPO_<j> on
parseValuesRepos(vals, j) ==
  IF j \notin DOMAIN vals \/ vals[j] = <<>> THEN [err |-> FALSE, repos |-> <<>>]
  ELSE LET p == parseValuesRepoString(vals[j]) IN
       IF p.err THEN [err |-> TRUE, repos |-> <<>>]
       ELSE LET rest == parseValuesRepos(vals, j + 1) IN
            IF rest.err THEN rest
            ELSE [err |-> FALSE, repos |-> <<p.repo>> \o rest.repos]

RECURSIVE parseGroups(_, _)
\* the outer loop of parseConfigGroupsFromPrefixedEnv, from group i on
parseGroups(env, i) ==
  IF Getenv(env, i, "NAME") = "" THEN [err |-> FALSE, groups |-> <<>>]
  ELSE LET values == parseValuesRepos(Getenv(env, i, "VALUES_REPOS"), 1)
           outputRepoEnv == Getenv(env, i, "OUTPUT_REPO")
           output == IF outputRepoEnv # <<>> THEN parseOutputRepoString(outputRepoEnv)
                     ELSE [err |-> FALSE, repo |-> OutputRepo("", "", "", "", "")]
       IN IF values.err \/ output.err THEN [err |-> TRUE, groups |-> <<>>]
          ELSE LET rest == parseGroups(env, i + 1) IN
               IF rest.err THEN rest
               ELSE [err |-> FALSE,
                     groups |-> <<ConfigGroup(Getenv(env, i, "NAME"), values.repos, output.repo)>>
                                  \o rest.groups]

parseConfigGroupsFromPrefixedEnv(env) ==
  LET p == parseGroups(env, 1) IN
  IF p.err THEN [err |-> TRUE, config |-> NoConfig]
  ELSE validateConfig(Config(p.groups))

\* mutation of loadConfigFromEnv: the prefixed variables are tried first
loadConfigFromEnv_PrefixedFirst(cge, env) ==
  LET p == parseConfigGroupsFromPrefixedEnv(env) IN
  IF ~p.err /\ Len(p.config.Groups) > 0 THEN p
  ELSE IF cge.kind # "unset" THEN parseConfigGroupsJSON(cge)
  ELSE [err |-> TRUE, config |-> NoConfig]

\* loadConfigFromEnv: CONFIG_GROUPS when it is set, else the prefixed variables
loadConfigFromEnv(cge, env) ==
  IF cge.kind # "unset" THEN parseConfigGroupsJSON(cge)
  ELSE LET p == parseConfigGroupsFromPrefixedEnv(env) IN
       IF ~p.err /\ Len(p.config.Groups) > 0 THEN p
       ELSE [err |-> TRUE, config |-> NoConfig]

\* LoadConfig: the file, and the environment when the file did not load
LoadConfig(file, cge, env) ==
  LET f == loadConfigFromFile(file) IN
  IF ~f.err THEN f ELSE loadConfigFromEnv(cge, env)

\* ListConfigGroups: the names in configuration order
ListConfigGroups(config) == [i \in DOMAIN config.Groups |-> config.Groups[i].Name]

\* findConfigGroup over a configuration: the first group with the name
findGroupIn(config, name) ==
  LET hits == {i \in DOMAIN config.Groups : config.Groups[i].Name = name} IN
  IF hits = {} THEN [err |-> TRUE, index |-> 0]
  ELSE [err |-> FALSE, index |-> CHOOSE i \in hits : \A j \in hits : i <= j]

\* Bounded configuration sources
GoodV1 == ValuesRepo("acme", "v1", "values.yaml", "main")
GoodV2 == ValuesRepo("acme", "v2", "values.yaml", "")
GoodV3 == ValuesRepo("acme", "v3", "env/values.yaml", "main")
GoodO1 == OutputRepo("acme", "o1", "k8s", "secrets.yaml", "main")
GoodO2 == OutputRepo("acme", "o2", "", "", "")
CandidateGroups ==
  { ConfigGroup("g1", <<GoodV1>>, GoodO1),
    ConfigGroup("g2", <<GoodV2>>, GoodO2),
    ConfigGroup("g1", <<GoodV2, GoodV1>>, GoodO2),
    ConfigGroup("", <<GoodV1>>, GoodO1),
    ConfigGroup("g2", <<>>, GoodO1),
    ConfigGroup("g2", <<ValuesRepo("acme", "v1", "", "main")>>, GoodO1),
    ConfigGroup("g2", <<GoodV1>>, OutputRepo("acme", "", "k8s", "secrets.yaml", "main")) }

SeqsUpTo(S, n) == UNION {[1..k -> S] : k \in 0..n}
ConfigFiles ==
  {[kind |-> "missing"], [kind |-> "unparsable"]}
    \cup {[kind |-> "yaml", config |-> Config(gs)] : gs \in SeqsUpTo(CandidateGroups, MaxGroups)}

ConfigGroupsEnvs ==
  {[kind |-> "unset"], [kind |-> "unparsable"],
   [kind |-> "json", groups |-> <<>>],
   [kind |-> "json", groups |-> <<ConfigGroup("g2", <<GoodV2>>, GoodO2)>>],
   [kind |-> "json", groups |-> <<ConfigGroup("g2", <<GoodV2>>, GoodO2),
                                  ConfigGroup("g2", <<GoodV1>>, GoodO1)>>],
   [kind |-> "json", groups |-> <<ConfigGroup("g1", <<>>, GoodO1)>>]}

PrefixedGroup(name, valuesRepos, outputRepo) ==
  [NAME |-> name, VALUES_REPOS |-> valuesRepos, OUTPUT_REPO |-> outputRepo]
ValuesStrings ==
  { <<"acme", "/", "v1", ":", "values.yaml", ":", "dev">>,
    <<"acme", "/", "v1", ":", "values.yaml">>,
    <<"acme", "/", "v1", ":", "values.yaml", ":">>,
    <<"acme", "/", "v1", ":">>,
    <<"acme", "/", "v1">>,
    <<"acme", ":", "values.yaml">> }
OutputStrings ==
  { <<"acme", "/", "o1", ":", "k8s", "/", "prod", "/", "secrets.yaml", ":", "dev">>,
    <<"acme", "/", "o1", ":", "secrets.yaml">>,
    <<"acme", "/", "o1", ":", "k8s", "/", ":">>,
    <<"acme", "/", ":", "secrets.yaml">>,
    <<"acme", "/", "o1">>,
    <<>> }
PrefixedGroups ==
  {PrefixedGroup(n, <<v>>, o) : n \in {"g1"}, v \in ValuesStrings, o \in OutputStrings}
    \cup {PrefixedGroup("", << <<"acme", "/", "v1", ":", "values.yaml">> >>,
                        <<"acme", "/", "o1", ":", "secrets.yaml">>),
          PrefixedGroup("g2", <<>>, <<"acme", "/", "o1", ":", "secrets.yaml">>),
          PrefixedGroup("g1", << <<"acme", "/", "v1", ":", "values.yaml">>, <<>>,
                                 <<"acme", "/", "v1">> >>,
                        <<"acme", "/", "o1", ":", "secrets.yaml">>),
          PrefixedGroup("g1", << <<"acme", "/", "v1", ":", "values.yaml">>,
                                 <<"acme", "/", "v2", ":", "values.yaml", ":", "dev">> >>,
                        <<"acme", "/", "o1", ":", "secrets.yaml">>)}
PrefixedEnvs ==
  {<<>>} \cup {<<g>> : g \in PrefixedGroups}
    \cup {<<g, h>> : g \in {PrefixedGroup("g1", << <<"acme", "/", "v1", ":", "values.yaml">> >>,
                                            <<"acme", "/", "o1", ":", "secrets.yaml">>),
                            PrefixedGroup("", <<>>, <<>>)},
                     h \in PrefixedGroups}

\* ------------------------------------------------------------------------
\* Bounds of the pipeline model
\* ------------------------------------------------------------------------
\* requests served in one behaviour
MaxRequests == 2
\* external operations that go wrong in one behaviour
MaxFaults == 1

\* ------------------------------------------------------------------------
\* Configuration (internal/config/config.go, cmd/server/main.go)
\* ------------------------------------------------------------------------
\* REPO_OWNER / REPO_NAME of the chart repository
RepoOwner == "acme"
RepoName == "chart"

\* the configuration the server runs with: config.yaml as LoadConfig accepted it
ServerConfigFile ==
  [kind |-> "yaml",
   config |-> Config(<<ConfigGroup("g1", <<GoodV1>>, GoodO1),
                       ConfigGroup("g2", <<GoodV3, GoodV2>>, GoodO2)>>)]
\* The groups the server holds after start-up: LoadConfig's result for
\* ServerConfigFile, i.e. its groups with validateConfig's defaults filled in.
Groups ==
  << ConfigGroup("g1", <<ValuesRepo("acme", "v1", "values.yaml", "main")>>,
                 OutputRepo("acme", "o1", "k8s", "secrets.yaml", "main")),
     ConfigGroup("g2", <<ValuesRepo("acme", "v3", "env/values.yaml", "main"),
                         ValuesRepo("acme", "v2", "values.yaml", "main")>>,
                 OutputRepo("acme", "o2", "", "generated.yaml", "main")) >>

NoGroup == [Name |-> "", ValuesRepos |-> <<>>,
            OutputRepo |-> [Owner |-> "", Repo |-> "", Path |-> "", Filename |-> "", Branch |-> ""]]

GetRepoURL(owner, repo) == "https://github.com/" \o owner \o "/" \o repo \o ".git"

TempDir == "/tmp"
\* filepath.Join of a directory and a possibly empty element
PathJoin(dir, elem) == IF elem = "" THEN dir ELSE IF dir = "" THEN elem ELSE dir \o "/" \o elem

GetLocalRepoPath(owner, repo, branch) ==
  PathJoin(TempDir, owner \o "-" \o repo \o "-" \o branch)
valuesRepoPath(v) ==
  PathJoin(TempDir, "values-" \o v.Owner \o "-" \o v.Repo \o "-" \o v.Branch)
outputRepoPath(o) ==
  PathJoin(TempDir, "output-" \o o.Owner \o "-" \o o.Repo \o "-" \o o.Branch)

\* the output file inside the checkout, relative to its root
outputFilename(o) == IF o.Filename = "" THEN "generated.yaml" ELSE o.Filename
outputPath(o) == PathJoin(o.Path, outputFilename(o))

\* mutation of findConfigGroup: an unknown name resolves to the first group
findConfigGroup_FirstOnMiss(name) ==
  LET f == findGroupIn(Config(Groups), name) IN
  [err |-> FALSE, group |-> Groups[IF f.err THEN 1 ELSE f.index]]

\* findConfigGroup: the first group with the name, or none
findConfigGroup(name) ==
  LET f == findGroupIn(Config(Groups), name) IN
  IF f.err THEN [err |-> TRUE, group |-> NoGroup]
  ELSE [err |-> FALSE, group |-> Groups[f.index]]

GroupNames == [i \in DOMAIN Groups |-> Groups[i].Name]

\* ------------------------------------------------------------------------
\* Repositories, checkouts and requests
\* ------------------------------------------------------------------------
Branches == {"", "main"}
TemplateURL == GetRepoURL(RepoOwner, RepoName)
Elems(seq) == {seq[i] : i \in DOMAIN seq}
AllValuesRepos == UNION {Elems(Groups[i].ValuesRepos) : i \in DOMAIN Groups}
ValuesURLs == {GetRepoURL(v.Owner, v.Repo) : v \in AllValuesRepos}
OutputURLs == {GetRepoURL(Groups[i].OutputRepo.Owner, Groups[i].OutputRepo.Repo) : i \in DOMAIN Groups}
URLs == {TemplateURL} \cup ValuesURLs \cup OutputURLs

\* branches and selections of the requests that are served concurrently
ConcBranches == {"main", "dev"}
ConcSelections == {<<"g1">>, <<"g2">>}

Dirs ==
  {GetLocalRepoPath(RepoOwner, RepoName, b) : b \in (Branches \cup ConcBranches) \ {""}}
    \cup {valuesRepoPath(v) : v \in AllValuesRepos}
    \cup {outputRepoPath(Groups[i].OutputRepo) : i \in DOMAIN Groups}

\* rendered documents
DocA == KeyA :> MapNode(TRUE, KeyB :> StrNode("s1"))
DocB == (KeyA :> MapNode(TRUE, KeyB :> StrNode("s2"))) @@ (KeyAB :> StrNode("s1"))
NoBytes == [top |-> "none", m |-> <<>>, fmt |-> 0]
\* DocA in two layouts, DocB, bytes whose top level is not a mapping, no output
RenderOutputs ==
  {MappingBytes(DocA, 1), MappingBytes(DocA, 2), MappingBytes(DocB, 1), OtherBytes, EmptyBytes}

NoFiles == <<>>
\* the values files the configuration names, as their repository holds them
ValuesFiles(url) ==
  [p \in {v.Path : v \in {w \in AllValuesRepos : GetRepoURL(w.Owner, w.Repo) = url}} |->
     EmptyBytes]
ChartFiles == ("Chart.yaml" :> EmptyBytes) @@ ("templates" :> EmptyBytes)
NoDir == [exists |-> FALSE, git |-> FALSE, url |-> "", files |-> NoFiles, base |-> NoFiles]

\* a working tree with one more file
WithFile(files, path, content) ==
  [p \in DOMAIN files \cup {path} |-> IF p = path THEN content ELSE files[p]]

Slots == {1, 2}

VARIABLES
  oldYAML, newYAML, order, out,   \* extractor calls
  remote,      \* url -> files of the branch the configuration names
  fs,          \* local directory -> checkout
  pc,          \* slot -> position of the handler
  req,         \* slot -> decoded request
  sel,         \* slot -> selectedGroups
  gi,          \* slot -> index of the group being processed
  results,     \* slot -> results map of the response
  status,      \* slot -> HTTP status written (0: none yet)
  frame,       \* slot -> locals of processConfigGroup
  trace,       \* slot -> operations performed for the request, in order
  faults,      \* external operations that went wrong so far
  started,     \* requests accepted so far
  lastPushed,  \* group -> bytes of its last successful commit still on the remote
  configFile, configGroupsEnv, environ, loaded,  \* a call of LoadConfig
  app,         \* signals of the App component and of its group selector
  call,        \* the API requests of the page still awaiting their response
  previewed    \* branch and groups of the most recent successful preview

xvars == <<oldYAML, newYAML, order, out>>
pvars == <<remote, fs, pc, req, sel, gi, results, status, frame, trace, faults, started, lastPushed>>
lvars == <<configFile, configGroupsEnv, environ, loaded>>
uvars == <<app, call, previewed>>
vars == <<oldYAML, newYAML, order, out, remote, fs, pc, req, sel, gi, results, status, frame,
          trace, faults, started, lastPushed, configFile, configGroupsEnv, environ, loaded,
          app, call, previewed>>

NoRequest == [kind |-> "none", badJSON |-> FALSE, branch |-> "", message |-> "", groups |-> <<>>]
Selections == {<<>>, <<"g1">>, <<"g2", "g1">>, <<"nope", "g2">>}
PreviewRequests ==
  [kind : {"preview"}, badJSON : BOOLEAN, branch : Branches, message : {""}, groups : Selections]
CommitRequests ==
  [kind : {"commit"}, badJSON : BOOLEAN, branch : Branches, message : {"", "deploy"}, groups : Selections]

EmptyFrame ==
  [group |-> NoGroup, vi |-> 0, valuesPaths |-> <<>>, yamlOutput |-> NoBytes,
   keys |-> <<>>, fileExists |-> FALSE, existingContent |-> NoBytes,
   contentChanged |-> FALSE, finalCommitMessage |-> ""]

PInit ==
  /\ remote \in {[u \in URLs |->
                   IF u = GetRepoURL("acme", "o1") /\ present
                   THEN outputPath(Groups[1].OutputRepo) :> MappingBytes(DocA, 1)
                   ELSE IF u \in ValuesURLs THEN ValuesFiles(u)
                   ELSE NoFiles] : present \in BOOLEAN}
  /\ fs = [d \in Dirs |-> NoDir]
  /\ pc = [r \in Slots |-> "idle"]
  /\ req = [r \in Slots |-> NoRequest]
  /\ sel = [r \in Slots |-> <<>>]
  /\ gi = [r \in Slots |-> 0]
  /\ results = [r \in Slots |-> <<>>]
  /\ status = [r \in Slots |-> 0]
  /\ frame = [r \in Slots |-> EmptyFrame]
  /\ trace = [r \in Slots |-> <<>>]
  /\ faults = 0
  /\ started = 0
  /\ lastPushed = [i \in DOMAIN Groups |-> NoBytes]

\* an external operation either works or, within the fault budget, fails
Outcomes == {"ok", "fail"}
Charge(outcome) ==
  /\ outcome # "ok" => faults < MaxFaults
  /\ faults' = IF outcome = "ok" THEN faults ELSE faults + 1

Op(name, arg, ok) == [op |-> name, arg |-> arg, ok |-> ok]
\* a call of CommitAndPush(repoPath, message); pushed: repo.Push was reached
CommitOp(repoPath, message, pushed, ok) ==
  [op |-> "CommitAndPush", arg |-> repoPath, ok |-> ok, message |-> message,
   pushed |-> pushed]
\* a call of TemplateChart(templatesPath, valuesPaths); args is the argument
\* list helm was run with, empty when it was not run
RenderOp(templatesPath, valuesPaths, args, ok) ==
  [op |-> "TemplateChart", arg |-> templatesPath, ok |-> ok,
   valuesPaths |-> valuesPaths, args |-> args]
Log(r, ops) == trace' = [trace EXCEPT ![r] = @ \o ops]

\* ------------------------------------------------------------------------
\* internal/git/service.go
\* ------------------------------------------------------------------------
\* CloneRepository: the directory is removed and recreated, then filled by
\* the clone; a failed clone leaves the empty directory behind
CloneRepository(files, url, directory, snapshot, ok) ==
  [files EXCEPT ![directory] =
     IF ok THEN [exists |-> TRUE, git |-> TRUE, url |-> url, files |-> snapshot, base |-> snapshot]
     ELSE [exists |-> TRUE, git |-> FALSE, url |-> "", files |-> NoFiles, base |-> NoFiles]]

\* CommitAndPush: PlainOpen, AddGlob("."), Commit, Push.  The push is
\* accepted when the checkout is a repository whose base is what the remote
\* still holds; then the remote branch holds the working tree.
PushAccepted(rem, dir) == dir.git /\ rem[dir.url] = dir.base
\* worktree.Commit is called without AllowEmptyCommits: for a working tree
\* that equals the checked-out commit go-git either makes an empty commit or
\* returns ErrEmptyCommit, depending on its version
CleanTree(dir) == dir.git /\ dir.files = dir.base
\* CommitAndPush may fail without anything going wrong outside: the
\* directory is no repository (PlainOpen), the commit is refused for a clean
\* tree (before the push), or the push is rejected because the remote moved
FailsByItself(rem, dir, pushed) ==
  \/ ~dir.git
  \/ ~pushed /\ CleanTree(dir)
  \/ pushed /\ ~PushAccepted(rem, dir)
\* mutation of CommitAndPush: the commit is made but never pushed
CommitAndPush_NoPush(rem, dir) == [rem EXCEPT ![dir.url] = @]
CommitAndPush(rem, dir) == [rem EXCEPT ![dir.url] = dir.files]

\* ------------------------------------------------------------------------
\* internal/api/routes.go
\* ------------------------------------------------------------------------
ErrorEntry(text) == [error |-> text]

\* request validation of PreviewChanges: the status to answer with, 0 to go on
PreviewValidate(q) ==
  IF q.badJSON THEN 400
  ELSE IF q.branch = "" THEN 400
  ELSE 0

\* mutation of CommitValidate: the message check is missing
CommitValidate_NoMessageCheck(q) ==
  IF q.badJSON THEN 400
  ELSE IF q.branch = "" THEN 400
  ELSE 0

\* request validation of CommitChanges
CommitValidate(q) ==
  IF q.badJSON THEN 400
  ELSE IF q.branch = "" THEN 400
  ELSE IF q.message = "" THEN 400
  ELSE 0

\* selectedGroups: the request's groups, or all configured groups when empty
SelectedGroups(q) == IF Len(q.groups) = 0 THEN GroupNames ELSE q.groups

\* entry of a handler: decode, validate, select the groups
Accept(r, q, code) ==
  /\ pc[r] = "idle"
  /\ started < MaxRequests
  /\ started' = started + 1
  /\ req' = [req EXCEPT ![r] = q]
  /\ trace' = [trace EXCEPT ![r] = <<>>]
  /\ results' = [results EXCEPT ![r] = <<>>]
  /\ frame' = [frame EXCEPT ![r] = EmptyFrame]
  /\ IF code # 0
     THEN /\ status' = [status EXCEPT ![r] = code]
          /\ pc' = [pc EXCEPT ![r] = "done"]
          /\ sel' = [sel EXCEPT ![r] = <<>>]
          /\ gi' = [gi EXCEPT ![r] = 0]
     ELSE IF Len(SelectedGroups(q)) = 0
     THEN /\ status' = [status EXCEPT ![r] = 500]
          /\ pc' = [pc EXCEPT ![r] = "done"]
          /\ sel' = [sel EXCEPT ![r] = <<>>]
          /\ gi' = [gi EXCEPT ![r] = 0]
     ELSE /\ status' = [status EXCEPT ![r] = 0]
          /\ pc' = [pc EXCEPT ![r] = "process"]
          /\ sel' = [sel EXCEPT ![r] = SelectedGroups(q)]
          /\ gi' = [gi EXCEPT ![r] = 1]
  /\ UNCHANGED <<remote, fs, faults, lastPushed>>

PreviewChanges(r) ==
  \E q \in PreviewRequests : Accept(r, q, PreviewValidate(q))

CommitChanges(r) ==
  \E q \in CommitRequests : Accept(r, q, CommitValidate(q))

groupName(r) == sel[r][gi[r]]
\* mutation of previewOnly: the preview handler passes false
previewOnly_Never(r) == req[r].kind = "preview" /\ FALSE
previewOnly(r) == req[r].kind = "preview"
templateRepoPath(r) == GetLocalRepoPath(RepoOwner, RepoName, req[r].branch)

\* mutation of Return: the first failing group ends the loop
Return_AbortsOnError(r, entry) ==
  /\ results' = [results EXCEPT ![r] =
                   [n \in DOMAIN @ \cup {sel[r][gi[r]]} |->
                      IF n = sel[r][gi[r]] THEN entry ELSE @[n]]]
  /\ frame' = [frame EXCEPT ![r] = EmptyFrame]
  /\ IF gi[r] < Len(sel[r]) /\ DOMAIN entry # {"error"}
     THEN /\ gi' = [gi EXCEPT ![r] = @ + 1]
          /\ pc' = [pc EXCEPT ![r] = "process"]
     ELSE /\ gi' = gi
          /\ pc' = [pc EXCEPT ![r] = "respond"]

\* processConfigGroup returns: the loop body of the handler stores the entry
\* and goes on with the next selected group, or answers after the last one
Return(r, entry) ==
  /\ results' = [results EXCEPT ![r] =
                   [n \in DOMAIN @ \cup {groupName(r)} |->
                      IF n = groupName(r) THEN entry ELSE @[n]]]
  /\ frame' = [frame EXCEPT ![r] = EmptyFrame]
  /\ IF gi[r] < Len(sel[r])
     THEN /\ gi' = [gi EXCEPT ![r] = @ + 1]
          /\ pc' = [pc EXCEPT ![r] = "process"]
     ELSE /\ gi' = gi
          /\ pc' = [pc EXCEPT ![r] = "respond"]

Goto(r, label) ==
  /\ pc' = [pc EXCEPT ![r] = label]
  /\ UNCHANGED <<gi, results>>

\* processConfigGroup, lines 92-96: resolve the group
FindConfigGroup(r) ==
  /\ pc[r] = "process"
  /\ LET f == findConfigGroup(groupName(r)) IN
     /\ Log(r, <<Op("findConfigGroup", groupName(r), ~f.err)>>)
     /\ IF f.err
        THEN Return(r, ErrorEntry("configuration group not found: " \o groupName(r)))
        ELSE /\ frame' = [frame EXCEPT ![r] = [EmptyFrame EXCEPT !.group = f.group]]
             /\ Goto(r, "getRepository")
  /\ UNCHANGED <<remote, fs, req, sel, status, faults, started, lastPushed>>

\* lines 98-102: repository information from the GitHub API
GetRepository(r) ==
  /\ pc[r] = "getRepository"
  /\ \E outcome \in Outcomes :
       /\ Charge(outcome)
       /\ Log(r, <<Op("GetRepository", TemplateURL, outcome = "ok")>>)
       /\ IF outcome = "ok"
          THEN Goto(r, "cloneTemplate") /\ frame' = frame
          ELSE Return(r, ErrorEntry("failed to get repository information"))
  /\ UNCHANGED <<remote, fs, req, sel, status, started, lastPushed>>

\* what a clone of the chart repository may bring
ChartSnapshots == [ok |-> ChartFiles,
                   noChart |-> ("templates" :> EmptyBytes),
                   noTemplates |-> ("Chart.yaml" :> EmptyBytes),
                   fail |-> NoFiles]

\* mutation of CloneTemplate: the clone waits while another request that has
\* checked out the same directory is still working with it
CloneTemplate_Locked(r) ==
  /\ pc[r] = "cloneTemplate"
  /\ \A o \in Slots \ {r} :
       ~(/\ pc[o] \in {"statChart", "cloneValues", "template"}
         /\ templateRepoPath(o) = templateRepoPath(r))
  /\ \E outcome \in DOMAIN ChartSnapshots :
       /\ Charge(outcome)
       /\ fs' = CloneRepository(fs, TemplateURL, templateRepoPath(r),
                                ChartSnapshots[outcome], outcome # "fail")
       /\ Log(r, <<Op("CloneRepository", templateRepoPath(r), outcome # "fail")>>)
       /\ IF outcome # "fail"
          THEN Goto(r, "statChart") /\ frame' = frame
          ELSE Return(r, ErrorEntry("failed to clone template repository"))
  /\ UNCHANGED <<remote, req, sel, status, started, lastPushed>>

\* lines 104-112: clone the template repository
CloneTemplate(r) ==
  /\ pc[r] = "cloneTemplate"
  /\ \E outcome \in DOMAIN ChartSnapshots :
       /\ Charge(outcome)
       /\ fs' = CloneRepository(fs, TemplateURL, templateRepoPath(r),
                                ChartSnapshots[outcome], outcome # "fail")
       /\ Log(r, <<Op("CloneRepository", templateRepoPath(r), outcome # "fail")>>)
       /\ IF outcome # "fail"
          THEN Goto(r, "statChart") /\ frame' = frame
          ELSE Return(r, ErrorEntry("failed to clone template repository"))
  /\ UNCHANGED <<remote, req, sel, status, started, lastPushed>>

\* mutation of StatChart: only the chart descriptor is looked for
StatChart_DescriptorOnly(r) ==
  /\ pc[r] = "statChart"
  /\ LET chartPath == fs[templateRepoPath(r)] IN
     IF "Chart.yaml" \notin DOMAIN chartPath.files
     THEN Return(r, ErrorEntry("Chart.yaml not found in repository root"))
     ELSE /\ Goto(r, "cloneValues")
          /\ frame' = [frame EXCEPT ![r].vi = 1]
  /\ UNCHANGED <<remote, fs, req, sel, status, trace, faults, started, lastPushed>>

\* lines 114-125: the chart markers
StatChart(r) ==
  /\ pc[r] = "statChart"
  /\ LET chartPath == fs[templateRepoPath(r)] IN
     IF "Chart.yaml" \notin DOMAIN chartPath.files
     THEN Return(r, ErrorEntry("Chart.yaml not found in repository root"))
     ELSE IF "templates" \notin DOMAIN chartPath.files
     THEN Return(r, ErrorEntry("templates directory not found"))
     ELSE /\ Goto(r, "cloneValues")
          /\ frame' = [frame EXCEPT ![r].vi = 1]
  /\ UNCHANGED <<remote, fs, req, sel, status, trace, faults, started, lastPushed>>

\* cloneValuesRepositories, one iteration of its loop
CloneValues(r) ==
  /\ pc[r] = "cloneValues"
  /\ frame[r].vi <= Len(frame[r].group.ValuesRepos)
  /\ LET valuesRepo == frame[r].group.ValuesRepos[frame[r].vi]
         repoURL == GetRepoURL(valuesRepo.Owner, valuesRepo.Repo)
     IN \E outcome \in Outcomes :
          /\ Charge(outcome)
          /\ fs' = CloneRepository(fs, repoURL, valuesRepoPath(valuesRepo),
                                   remote[repoURL], outcome = "ok")
          /\ Log(r, <<Op("CloneRepository", valuesRepoPath(valuesRepo), outcome = "ok")>>)
          /\ IF outcome = "ok"
             THEN /\ frame' = [frame EXCEPT
                                 ![r].valuesPaths =
                                    Append(@, PathJoin(valuesRepoPath(valuesRepo), valuesRepo.Path)),
                                 ![r].vi = @ + 1]
                  /\ Goto(r, "cloneValues")
             ELSE Return(r, ErrorEntry("failed to clone values repository "
                                        \o valuesRepo.Owner \o "/" \o valuesRepo.Repo))
  /\ UNCHANGED <<remote, req, sel, status, started, lastPushed>>

\* lines 128-135: the loop is over; no values file is an error
CheckValues(r) ==
  /\ pc[r] = "cloneValues"
  /\ frame[r].vi > Len(frame[r].group.ValuesRepos)
  /\ IF Len(frame[r].valuesPaths) = 0
     THEN Return(r, ErrorEntry("no values files found for group " \o groupName(r)))
     ELSE Goto(r, "template") /\ frame' = frame
  /\ UNCHANGED <<remote, fs, req, sel, status, trace, faults, started, lastPushed>>

\* os.Stat of an absolute path: a file of an existing checkout
Stat(files, path) ==
  \E d \in DOMAIN files :
    files[d].exists /\ \E f \in DOMAIN files[d].files : PathJoin(d, f) = path

RECURSIVE ValuesArgs_Reversed(_)
\* mutation of ValuesArgs: every values file is put in front of the earlier ones
ValuesArgs_Reversed(valuesPaths) ==
  IF valuesPaths = <<>> THEN <<>>
  ELSE ValuesArgs_Reversed(Tail(valuesPaths)) \o <<"-f", Head(valuesPaths)>>

RECURSIVE ValuesArgs(_)
\* helm/service.go lines 97-104: "-f", valuesPath appended per values file
ValuesArgs(valuesPaths) ==
  IF valuesPaths = <<>> THEN <<>>
  ELSE <<"-f", Head(valuesPaths)>> \o ValuesArgs(Tail(valuesPaths))

\* the temporary chart and output directories of one rendering
ChartDir == "helm-chart"
OutputDir == "helm-output"
\* helm/service.go line 95 and lines 97-104: the arguments of the helm command
HelmArgs(valuesPaths) ==
  <<"template", ChartDir, "--output-dir", OutputDir>> \o ValuesArgs(valuesPaths)

\* mutation of TemplateChart: a failed rendering is not returned
TemplateChart_IgnoresError(r) ==
  /\ pc[r] = "template"
  /\ \E outcome \in Outcomes, yamlOutput \in RenderOutputs :
       /\ Charge(outcome)
       /\ Log(r, <<RenderOp(templateRepoPath(r), frame[r].valuesPaths,
                            HelmArgs(frame[r].valuesPaths), outcome = "ok")>>)
       /\ frame' = [frame EXCEPT ![r].yamlOutput = yamlOutput]
       /\ Goto(r, "cloneOutput")
  /\ UNCHANGED <<remote, fs, req, sel, status, started, lastPushed>>

\* helm.Service.TemplateChart and, in commit mode, lines 191-199: the keys
\* of the rendered document are extracted before the output is touched.
\* A values file that is not there ends the rendering before helm is run.
TemplateChart(r) ==
  /\ pc[r] = "template"
  /\ LET valuesPaths == frame[r].valuesPaths IN
     IF \E i \in DOMAIN valuesPaths : ~Stat(fs, valuesPaths[i])
     THEN /\ faults' = faults
          /\ Log(r, <<RenderOp(templateRepoPath(r), valuesPaths, <<>>, FALSE)>>)
          /\ Return(r, ErrorEntry("failed to template chart"))
     ELSE \E outcome \in Outcomes, yamlOutput \in RenderOutputs :
       /\ Charge(outcome)
       /\ Log(r, <<RenderOp(templateRepoPath(r), valuesPaths, HelmArgs(valuesPaths),
                            outcome = "ok")>>)
       /\ IF outcome # "ok"
          THEN Return(r, ErrorEntry("failed to template chart"))
          ELSE IF previewOnly(r)
          THEN /\ frame' = [frame EXCEPT ![r].yamlOutput = yamlOutput]
               /\ Goto(r, "cloneOutput")
          ELSE LET e == ExtractKeys(yamlOutput) IN
               IF e.err
               THEN Return(r, ErrorEntry("failed to extract keys"))
               ELSE /\ frame' = [frame EXCEPT ![r].yamlOutput = yamlOutput, ![r].keys = e.keys]
                    /\ Goto(r, "cloneOutput")
  /\ UNCHANGED <<remote, fs, req, sel, status, started, lastPushed>>

\* mutation of CloneOutput: a failed clone is tried again
CloneOutput_Retries(r) ==
  /\ pc[r] = "cloneOutput"
  /\ LET outputRepo == frame[r].group.OutputRepo
         repoURL == GetRepoURL(outputRepo.Owner, outputRepo.Repo)
     IN \E outcome \in Outcomes :
          /\ Charge(outcome)
          /\ fs' = CloneRepository(fs, repoURL, outputRepoPath(outputRepo),
                                   remote[repoURL], outcome = "ok")
          /\ Log(r, <<Op("CloneRepository", outputRepoPath(outputRepo), outcome = "ok")>>)
          /\ Goto(r, IF outcome # "ok" THEN "cloneOutput"
                     ELSE IF previewOnly(r) THEN "previewCompare" ELSE "readExisting")
          /\ frame' = frame
  /\ UNCHANGED <<remote, req, sel, status, started, lastPushed>>

\* cloneOutputRepository (lines 151-155 in preview, 201-205 in commit)
CloneOutput(r) ==
  /\ pc[r] = "cloneOutput"
  /\ LET outputRepo == frame[r].group.OutputRepo
         repoURL == GetRepoURL(outputRepo.Owner, outputRepo.Repo)
     IN \E outcome \in Outcomes :
          /\ Charge(outcome)
          /\ fs' = CloneRepository(fs, repoURL, outputRepoPath(outputRepo),
                                   remote[repoURL], outcome = "ok")
          /\ Log(r, <<Op("CloneRepository", outputRepoPath(outputRepo), outcome = "ok")>>)
          /\ IF outcome = "ok"
             THEN /\ Goto(r, IF previewOnly(r) THEN "previewCompare" ELSE "readExisting")
                  /\ frame' = frame
             ELSE Return(r, ErrorEntry("failed to clone output repository "
                                        \o outputRepo.Owner \o "/" \o outputRepo.Repo))
  /\ UNCHANGED <<remote, req, sel, status, started, lastPushed>>

\* os.ReadFile of a file of a checkout
ReadFile(dir, path) ==
  IF dir.exists /\ path \in DOMAIN dir.files
  THEN [err |-> FALSE, content |-> dir.files[path]]
  ELSE [err |-> TRUE, content |-> NoBytes]

\* mutation of PreviewResult: the comparison takes its arguments swapped
PreviewResult_Swapped(read, yamlOutput, ord) ==
  IF read.err
  THEN LET e == ExtractKeys(yamlOutput) IN
       IF e.err THEN [error |-> "failed to extract keys"]
       ELSE [changes |-> [all_new |-> TRUE, keys |-> e.keys]]
  ELSE LET c == CompareYAML(yamlOutput, read.content, ord) IN
       IF c.err THEN [error |-> "failed to compare YAML"]
       ELSE [changes |-> [diff |-> c.diff]]

\* lines 164-188: the preview result from the existing and the rendered file
PreviewResult(read, yamlOutput, ord) ==
  IF read.err
  THEN LET e == ExtractKeys(yamlOutput) IN
       IF e.err THEN ErrorEntry("failed to extract keys")
       ELSE [changes |-> [all_new |-> TRUE, keys |-> e.keys]]
  ELSE LET c == CompareYAML(read.content, yamlOutput, ord) IN
       IF c.err THEN ErrorEntry("failed to compare YAML")
       ELSE [changes |-> [diff |-> c.diff]]

\* lines 157-188: read the existing file, then extract or compare
PreviewCompare(r) ==
  /\ pc[r] = "previewCompare"
  /\ LET outputRepo == frame[r].group.OutputRepo
         read == ReadFile(fs[outputRepoPath(outputRepo)], outputPath(outputRepo))
     IN \E ord \in Orders :
          /\ Log(r, <<Op("ReadFile", outputPath(outputRepo), ~read.err)>>)
          /\ Return(r, PreviewResult(read, frame[r].yamlOutput, ord))
  /\ UNCHANGED <<remote, fs, req, sel, status, faults, started, lastPushed>>

\* mutation of ContentChanged: the documents are compared, not the bytes
ContentChanged_Semantic(read, yamlOutput) ==
  IF ~read.err THEN Unmarshal(read.content) # Unmarshal(yamlOutput) ELSE TRUE

\* lines 225-230: did the content change
ContentChanged(read, yamlOutput) ==
  IF ~read.err THEN read.content # yamlOutput ELSE TRUE

\* lines 207-230: output directory, existing file, contentChanged
ReadExisting(r) ==
  /\ pc[r] = "readExisting"
  /\ LET outputRepo == frame[r].group.OutputRepo
         read == ReadFile(fs[outputRepoPath(outputRepo)], outputPath(outputRepo))
     IN /\ Log(r, <<Op("ReadFile", outputPath(outputRepo), ~read.err)>>)
        /\ frame' = [frame EXCEPT ![r].fileExists = ~read.err,
                                  ![r].existingContent = read.content,
                                  ![r].contentChanged = ContentChanged(read, frame[r].yamlOutput)]
        /\ Goto(r, "writeFile")
  /\ UNCHANGED <<remote, fs, req, sel, status, faults, started, lastPushed>>

\* mutation of FinalCommitMessage: the user's message is used as it is
FinalCommitMessage_Plain(commitMessage, repoOwner, repoName, templateRepoBranch, name) ==
  commitMessage

\* lines 237-242: the commit message
FinalCommitMessage(commitMessage, repoOwner, repoName, templateRepoBranch, name) ==
  IF commitMessage # ""
  THEN commitMessage \o " (generated from " \o repoOwner \o "/" \o repoName
         \o " branch: " \o templateRepoBranch \o ", group: " \o name \o ")"
  ELSE commitMessage

\* lines 232-242: write the rendered bytes into the checkout
WriteFile(r) ==
  /\ pc[r] = "writeFile"
  /\ LET outputRepo == frame[r].group.OutputRepo
         dir == outputRepoPath(outputRepo)
     IN \E outcome \in Outcomes :
          /\ Charge(outcome)
          /\ Log(r, <<Op("WriteFile", outputPath(outputRepo), outcome = "ok")>>)
          /\ IF outcome = "ok"
             THEN /\ fs' = [fs EXCEPT ![dir].files =
                              WithFile(@, outputPath(outputRepo), frame[r].yamlOutput)]
                  /\ frame' = [frame EXCEPT ![r].finalCommitMessage =
                                 FinalCommitMessage(req[r].message, RepoOwner, RepoName,
                                                    req[r].branch, groupName(r))]
                  /\ Goto(r, "commitAndPush")
             ELSE /\ fs' = fs
                  /\ Return(r, ErrorEntry("failed to write YAML file"))
  /\ UNCHANGED <<remote, req, sel, status, started, lastPushed>>

\* lines 249-253: the message of the result
ResponseMessage(contentChanged, fileExists) ==
  IF ~contentChanged /\ fileExists
  THEN "No changes detected. The generated content is identical to the existing file."
  ELSE "Changes committed and pushed successfully"

GroupIndex(name) == CHOOSE i \in DOMAIN Groups : Groups[i].Name = name

\* lines 244-258: commit and push, then the result of the group
CommitAndPushStep(r) ==
  /\ pc[r] = "commitAndPush"
  /\ LET outputRepo == frame[r].group.OutputRepo
         dir == fs[outputRepoPath(outputRepo)]
         g == GroupIndex(frame[r].group.Name)
     IN \E outcome \in Outcomes, pushed \in BOOLEAN :
          /\ outcome = "ok" => pushed /\ PushAccepted(remote, dir)
          /\ pushed => dir.git
          /\ IF outcome = "fail" /\ FailsByItself(remote, dir, pushed)
             THEN faults' = faults
             ELSE Charge(outcome)
          /\ Log(r, <<CommitOp(outputRepoPath(outputRepo), frame[r].finalCommitMessage,
                                pushed, outcome = "ok")>>)
          /\ IF outcome = "ok"
             THEN /\ remote' = CommitAndPush(remote, dir)
                  /\ lastPushed' =
                       [h \in DOMAIN Groups |->
                          IF h = g THEN frame[r].yamlOutput
                          ELSE IF GetRepoURL(Groups[h].OutputRepo.Owner, Groups[h].OutputRepo.Repo)
                                    = dir.url
                          THEN NoBytes
                          ELSE lastPushed[h]]
                  /\ Return(r, [keys |-> frame[r].keys,
                                message |-> ResponseMessage(frame[r].contentChanged,
                                                            frame[r].fileExists),
                                content_changed |-> frame[r].contentChanged])
             ELSE /\ UNCHANGED <<remote, lastPushed>>
                  /\ Return(r, ErrorEntry("failed to commit and push changes"))
  /\ UNCHANGED <<fs, req, sel, status, started>>

\* lines 372-375 and 430-433: render.JSON of the results
Respond(r) ==
  /\ pc[r] = "respond"
  /\ status' = [status EXCEPT ![r] = 200]
  /\ pc' = [pc EXCEPT ![r] = "done"]
  /\ UNCHANGED <<remote, fs, req, sel, gi, results, frame, trace, faults, started, lastPushed>>

\* the handler has returned; its request state is dropped
Finish(r) ==
  /\ pc[r] = "done"
  /\ pc' = [pc EXCEPT ![r] = "idle"]
  /\ req' = [req EXCEPT ![r] = NoRequest]
  /\ sel' = [sel EXCEPT ![r] = <<>>]
  /\ gi' = [gi EXCEPT ![r] = 0]
  /\ results' = [results EXCEPT ![r] = <<>>]
  /\ status' = [status EXCEPT ![r] = 0]
  /\ trace' = [trace EXCEPT ![r] = <<>>]
  /\ UNCHANGED <<remote, fs, frame, faults, started, lastPushed>>

\* ------------------------------------------------------------------------
\* Specifications
\* ------------------------------------------------------------------------
\* no call of LoadConfig beyond the one that gave the server its groups
NoLoad == [op |-> "none"]
LIdle ==
  /\ configFile = ServerConfigFile
  /\ configGroupsEnv = [kind |-> "unset"]
  /\ environ = <<>>
  /\ loaded = NoLoad

XIdle ==
  /\ oldYAML = EmptyBytes
  /\ newYAML = EmptyBytes
  /\ order = KeySorted
  /\ out = NoOut

\* keys() is null: no preview is shown (else: the request the shown results answer)
NoKeys == [branch |-> "", groups |-> <<"-">>]
\* the page before any response has arrived: createSignal's initial values,
\* with loading set by the effect that fetches the branches
Mounted ==
  [branches |-> <<>>, selectedBranch |-> "", selectedGroups |-> <<>>, keys |-> NoKeys,
   loading |-> TRUE, step |-> "select", groups |-> <<>>]
\* no page is open
UIdle ==
  /\ app = Mounted
  /\ call = {}
  /\ previewed = NoKeys

\* Spec: the server handling one request at a time
Init == XIdle /\ LIdle /\ UIdle /\ PInit

Next ==
  \/ PreviewChanges(1) /\ UNCHANGED <<xvars, lvars, uvars>>
  \/ CommitChanges(1) /\ UNCHANGED <<xvars, lvars, uvars>>
  \/ FindConfigGroup(1) /\ UNCHANGED <<xvars, lvars, uvars>>
  \/ GetRepository(1) /\ UNCHANGED <<xvars, lvars, uvars>>
  \/ CloneTemplate(1) /\ UNCHANGED <<xvars, lvars, uvars>>
  \/ StatChart(1) /\ UNCHANGED <<xvars, lvars, uvars>>
  \/ CloneValues(1) /\ UNCHANGED <<xvars, lvars, uvars>>
  \/ CheckValues(1) /\ UNCHANGED <<xvars, lvars, uvars>>
  \/ TemplateChart(1) /\ UNCHANGED <<xvars, lvars, uvars>>
  \/ CloneOutput(1) /\ UNCHANGED <<xvars, lvars, uvars>>
  \/ PreviewCompare(1) /\ UNCHANGED <<xvars, lvars, uvars>>
  \/ ReadExisting(1) /\ UNCHANGED <<xvars, lvars, uvars>>
  \/ WriteFile(1) /\ UNCHANGED <<xvars, lvars, uvars>>
  \/ CommitAndPushStep(1) /\ UNCHANGED <<xvars, lvars, uvars>>
  \/ Respond(1) /\ UNCHANGED <<xvars, lvars, uvars>>
  \/ Finish(1) /\ UNCHANGED <<xvars, lvars, uvars>>

Spec == Init /\ [][Next]_vars

\* ------------------------------------------------------------------------
\* ConcSpec: two requests in flight at once.  net/http serves every request
\* on its own goroutine, so the steps of the two handlers interleave.
\* ------------------------------------------------------------------------
ConcPreviewRequests ==
  [kind : {"preview"}, badJSON : {FALSE}, branch : ConcBranches, message : {""},
   groups : ConcSelections]
ConcCommitRequests ==
  [kind : {"commit"}, badJSON : {FALSE}, branch : ConcBranches, message : {"deploy"},
   groups : ConcSelections]

ConcPreviewChanges(r) == \E q \in ConcPreviewRequests : Accept(r, q, PreviewValidate(q))
ConcCommitChanges(r) == \E q \in ConcCommitRequests : Accept(r, q, CommitValidate(q))

ConcStep(r) ==
  \/ ConcPreviewChanges(r) \/ ConcCommitChanges(r) \/ FindConfigGroup(r) \/ GetRepository(r)
  \/ CloneTemplate(r) \/ StatChart(r) \/ CloneValues(r) \/ CheckValues(r)
  \/ TemplateChart(r) \/ CloneOutput(r) \/ PreviewCompare(r) \/ ReadExisting(r)
  \/ WriteFile(r) \/ CommitAndPushStep(r) \/ Respond(r) \/ Finish(r)

ConcNext == \E r \in Slots : ConcStep(r) /\ UNCHANGED <<xvars, lvars, uvars>>

ConcSpec == Init /\ [][ConcNext]_vars

\* ------------------------------------------------------------------------
\* Extractor specification: the two entry points applied to bounded inputs
\* ------------------------------------------------------------------------

XInit ==
  /\ oldYAML \in Inputs
  /\ newYAML \in Inputs
  /\ order \in Orders
  /\ out = NoOut
  /\ LIdle
  /\ UIdle
  /\ PInit
  /\ remote[GetRepoURL("acme", "o1")] = NoFiles

CallExtractKeys ==
  /\ out = NoOut
  /\ out' = [op |-> "ExtractKeys", res |-> ExtractKeys(newYAML)]
  /\ UNCHANGED <<oldYAML, newYAML, order>>
  /\ UNCHANGED <<pvars, lvars, uvars>>

CallExtractKeysOld ==
  /\ out = NoOut
  /\ out' = [op |-> "ExtractKeysOld", res |-> ExtractKeys(oldYAML)]
  /\ UNCHANGED <<oldYAML, newYAML, order>>
  /\ UNCHANGED <<pvars, lvars, uvars>>

CallCompareYAML ==
  /\ out = NoOut
  /\ out' = [op |-> "CompareYAML", res |-> CompareYAML(oldYAML, newYAML, order),
             assigned |-> CompareAssignments(oldYAML, newYAML, order)]
  /\ UNCHANGED <<oldYAML, newYAML, order>>
  /\ UNCHANGED <<pvars, lvars, uvars>>

XNext == CallExtractKeys \/ CallExtractKeysOld \/ CallCompareYAML

XSpec == XInit /\ [][XNext]_vars

\* ------------------------------------------------------------------------
\* Configuration specification: LoadConfig applied to bounded sources, then
\* the group list and the lookup over what it accepted
\* ------------------------------------------------------------------------
LookupNames == {"g1", "g2", "nope"}

LInit ==
  /\ configFile \in ConfigFiles
  /\ configGroupsEnv \in ConfigGroupsEnvs
  /\ environ \in PrefixedEnvs
  /\ loaded = NoLoad
  /\ XIdle
  /\ UIdle
  /\ PInit
  /\ remote[GetRepoURL("acme", "o1")] = NoFiles

CallLoadConfig ==
  /\ loaded = NoLoad
  /\ loaded' = [op |-> "LoadConfig", res |-> LoadConfig(configFile, configGroupsEnv, environ)]
  /\ UNCHANGED <<configFile, configGroupsEnv, environ>>
  /\ UNCHANGED <<xvars, pvars, uvars>>

CallListConfigGroups ==
  /\ loaded.op = "LoadConfig" /\ ~loaded.res.err
  /\ loaded' = [op |-> "ListConfigGroups", res |-> loaded.res,
                 names |-> ListConfigGroups(loaded.res.config)]
  /\ UNCHANGED <<configFile, configGroupsEnv, environ>>
  /\ UNCHANGED <<xvars, pvars, uvars>>

CallFindConfigGroup ==
  /\ loaded.op = "LoadConfig" /\ ~loaded.res.err
  /\ \E name \in LookupNames :
       loaded' = [op |-> "findConfigGroup", res |-> loaded.res, name |-> name,
                  found |-> findGroupIn(loaded.res.config, name)]
  /\ UNCHANGED <<configFile, configGroupsEnv, environ>>
  /\ UNCHANGED <<xvars, pvars, uvars>>

LNext == CallLoadConfig \/ CallListConfigGroups \/ CallFindConfigGroup

LSpec == LInit /\ [][LNext]_vars

\* ------------------------------------------------------------------------
\* Page specification: the wizard of App.jsx driven by the operator and by
\* the responses of the server
\* ------------------------------------------------------------------------
\* what GET /api/branches may answer
BranchLists == {<<"dev", "main">>, <<"dev", "feature">>, <<>>}
\* what GET /api/groups may answer
GroupLists == {<<"g1", "g2">>}
CommitMessages == {"", "deploy"}

\* Array.prototype.filter(g => g !== group)
Without(q, group) == SelectSeq(q, LAMBDA g : g # group)

\* a request of apiService awaiting its response
ApiCall(kind, branch, message, groups) ==
  [kind |-> kind, branch |-> branch, message |-> message, groups |-> groups,
   step |-> app.step]

\* App.jsx lines 131-141: both selectors are disabled while loading
SelectorsDisabled == app.loading \/ app.step = "commit"

UInit ==
  /\ app = Mounted
  /\ call = {ApiCall("branches", "", "", <<>>), ApiCall("groups", "", "", <<>>)}
  /\ previewed = NoKeys
  /\ XIdle
  /\ LIdle
  /\ PInit
  /\ remote[GetRepoURL("acme", "o1")] = NoFiles

\* App.jsx lines 25-44: the response to getBranches arrives
BranchesLoaded ==
  \E c \in call :
    /\ c.kind = "branches"
    /\ call' = call \ {c}
    /\ \/ \E bs \in BranchLists :
            app' = [app EXCEPT !.branches = bs,
                               !.selectedBranch =
                                  IF "main" \in Elems(bs) THEN "main"
                                  ELSE IF Len(bs) > 0 THEN bs[1] ELSE @,
                               !.loading = FALSE]
       \/ app' = [app EXCEPT !.loading = FALSE]
    /\ UNCHANGED previewed
    /\ UNCHANGED <<xvars, pvars, lvars>>

\* ConfigGroupSelector.jsx lines 10-22: the response to getConfigGroups arrives
GroupsLoaded ==
  \E c \in call :
    /\ c.kind = "groups"
    /\ call' = call \ {c}
    /\ \/ \E gs \in GroupLists : app' = [app EXCEPT !.groups = gs]
       \/ app' = [app EXCEPT !.groups = <<>>]
    /\ UNCHANGED previewed
    /\ UNCHANGED <<xvars, pvars, lvars>>

\* ConfigGroupSelector.jsx lines 24-36: a checkbox is toggled; the effect hands
\* the new list to App's setSelectedGroups
handleGroupChange ==
  /\ ~SelectorsDisabled
  /\ \E group \in Elems(app.groups) :
       LET isSelected == group \notin Elems(app.selectedGroups)
       IN app' = [app EXCEPT !.selectedGroups =
                                IF isSelected THEN Append(@, group) ELSE Without(@, group)]
  /\ UNCHANGED <<call, previewed>>
  /\ UNCHANGED <<xvars, pvars, lvars>>

\* App.jsx lines 56-62
handleBranchSelect ==
  /\ ~SelectorsDisabled
  /\ \E branch \in Elems(app.branches) \ {app.selectedBranch} :
       app' = [app EXCEPT !.selectedBranch = branch, !.step = "select", !.keys = NoKeys]
  /\ UNCHANGED <<call, previewed>>
  /\ UNCHANGED <<xvars, pvars, lvars>>

\* App.jsx lines 64-73 and 143-153: the Preview button is pressed
handlePreview ==
  /\ app.step = "select"
  /\ ~app.loading
  /\ app.selectedBranch # ""
  /\ app' = [app EXCEPT !.loading = TRUE]
  /\ call' = call \cup {ApiCall("preview", app.selectedBranch, "", app.selectedGroups)}
  /\ UNCHANGED previewed
  /\ UNCHANGED <<xvars, pvars, lvars>>

\* App.jsx lines 74-80: the response to previewChanges arrives
PreviewReturns ==
  \E c \in call :
    /\ c.kind = "preview"
    /\ call' = call \ {c}
    /\ \/ /\ app' = [app EXCEPT !.keys = [branch |-> c.branch, groups |-> c.groups],
                                !.step = "preview",
                                !.loading = FALSE]
          /\ previewed' = [branch |-> c.branch, groups |-> c.groups]
       \/ /\ app' = [app EXCEPT !.loading = FALSE]
          /\ UNCHANGED previewed
    /\ UNCHANGED <<xvars, pvars, lvars>>

\* App.jsx lines 83-92 and 155-186: the commit form is submitted
handleCommit ==
  /\ app.step = "preview"
  /\ app.keys # NoKeys
  /\ ~app.loading
  /\ app.selectedBranch # ""
  /\ \E message \in CommitMessages :
       call' = call \cup {ApiCall("commit", app.selectedBranch, message, app.selectedGroups)}
  /\ app' = [app EXCEPT !.loading = TRUE]
  /\ UNCHANGED previewed
  /\ UNCHANGED <<xvars, pvars, lvars>>

\* App.jsx lines 93-99: the response to commitChanges arrives
CommitReturns ==
  \E c \in call :
    /\ c.kind = "commit"
    /\ call' = call \ {c}
    /\ \/ app' = [app EXCEPT !.step = "success", !.loading = FALSE]
       \/ app' = [app EXCEPT !.loading = FALSE]
    /\ UNCHANGED previewed
    /\ UNCHANGED <<xvars, pvars, lvars>>

\* App.jsx lines 102-107, 179-183 and 198-202: Cancel, or Start New Generation
handleReset ==
  /\ \/ app.step = "preview" /\ app.keys # NoKeys /\ ~app.loading
     \/ app.step = "success"
  /\ app' = [app EXCEPT !.step = "select", !.keys = NoKeys]
  /\ UNCHANGED <<call, previewed>>
  /\ UNCHANGED <<xvars, pvars, lvars>>

UNext ==
  \/ BranchesLoaded \/ GroupsLoaded \/ handleGroupChange \/ handleBranchSelect
  \/ handlePreview \/ PreviewReturns \/ handleCommit \/ CommitReturns \/ handleReset

USpec == UInit /\ [][UNext]_vars

\* ------------------------------------------------------------------------
\* Claims about the extractor
\* ------------------------------------------------------------------------
RECURSIVE Skeleton(_)
\* the redacted shape of a mapping as the data model describes it
Skeleton(m) ==
  [k \in DOMAIN m |->
     CASE m[k].kind = "mapping" -> Tree(Skeleton(m[k].m))
       [] m[k].kind = "sequence" -> Sentinel(SentinelSeq)
       [] OTHER -> Sentinel(SentinelOther)]

\* C1: for every input whose top level is a mapping, ExtractKeys returns the
\* tree with exactly the input's keys at every mapping level, a nested
\* mapping as its own tree, a sequence as "[...]" and anything else as "...".
C1_ExtractKeysIsSkeleton ==
  (out.op = "ExtractKeys" /\ newYAML.top = "mapping")
    => (~out.res.err /\ out.res.keys = Skeleton(newYAML.m))

RECURSIVE SameShape(_, _)
\* same keys at every mapping level and the same kind at every key
SameShape(m1, m2) ==
  /\ DOMAIN m1 = DOMAIN m2
  /\ \A k \in DOMAIN m1 :
       /\ m1[k].kind = m2[k].kind
       /\ m1[k].kind = "mapping" =>
            (m1[k].allStr = m2[k].allStr /\ SameShape(m1[k].m, m2[k].m))

\* C2: two top-level-mapping documents with the same keys at every mapping
\* level and the same kind at every key, whatever their scalar values and
\* sequence contents, have the same ExtractKeys result.
C2_ExtractKeysIgnoresValues ==
  (/\ out.op = "ExtractKeys"
   /\ newYAML.top = "mapping" /\ oldYAML.top = "mapping"
   /\ SameShape(oldYAML.m, newYAML.m))
    => out.res = ExtractKeys(oldYAML)

\* C2 witness: two documents of one shape that differ in a scalar, in a
\* sequence and in a nested scalar, and ExtractKeys has run on one of them
C2_Witness ==
  /\ out.op = "ExtractKeys"
  /\ newYAML.top = "mapping" /\ oldYAML.top = "mapping"
  /\ SameShape(oldYAML.m, newYAML.m)
  /\ DOMAIN newYAML.m = TopKeys
  /\ newYAML.m[KeyA].kind = "mapping" /\ newYAML.m[KeyA].allStr
  /\ KeyB \in DOMAIN newYAML.m[KeyA].m
  /\ newYAML.m[KeyA].m[KeyB] # oldYAML.m[KeyA].m[KeyB]
  /\ newYAML.m[KeyAB] # oldYAML.m[KeyAB]

\* C3: CompareYAML of a top-level-mapping document with itself is empty.
C3_CompareSelfEmpty ==
  (out.op = "CompareYAML" /\ oldYAML = newYAML /\ newYAML.top = "mapping")
    => (~out.res.err /\ DOMAIN out.res.diff = {})

\* C3 witness: a document with a sequence and a nested mapping compared
\* with itself
C3_Witness ==
  /\ out.op = "CompareYAML" /\ oldYAML = newYAML /\ newYAML.top = "mapping"
  /\ DOMAIN newYAML.m = TopKeys
  /\ newYAML.m[KeyA].kind = "mapping" /\ DOMAIN newYAML.m[KeyA].m = {KeyB}
  /\ newYAML.m[KeyAB].kind = "sequence"

\* C4: every path of the diff is classified once: no path is assigned twice
\* during one comparison, and the result does not depend on the order in
\* which the keys are visited.
C4_PathsClassifiedOnce ==
  out.op = "CompareYAML" =>
    /\ \A i, j \in DOMAIN out.assigned :
         i # j => out.assigned[i].path # out.assigned[j].path
    /\ \A o \in Orders : CompareYAML(oldYAML, newYAML, o) = out.res

\* ------------------------------------------------------------------------
\* Claims about the pipeline
\* ------------------------------------------------------------------------
IsErrorEntry(e) == DOMAIN e = {"error"}
IsPreviewResult(e) == DOMAIN e = {"changes"}
IsCommitResult(e) == DOMAIN e = {"keys", "message", "content_changed"}

\* the names resolved for a request, in order
Resolved(r) ==
  LET finds == SelectSeq(trace[r], LAMBDA o : o.op = "findConfigGroup") IN
  [i \in DOMAIN finds |-> finds[i].arg]

\* C5: a failing group is recorded as that group's error entry and does not
\* abort the request: every selected group is processed and has its own
\* entry, the response is a success, and an entry is an error or a result,
\* never both.
C5_GroupIsolation ==
  \A r \in Slots :
    (pc[r] = "done" /\ Len(sel[r]) > 0) =>
      /\ status[r] = 200
      /\ Resolved(r) = sel[r]
      /\ DOMAIN results[r] = Elems(sel[r])
      /\ \A n \in DOMAIN results[r] :
           \/ IsErrorEntry(results[r][n])
           \/ IF req[r].kind = "preview" THEN IsPreviewResult(results[r][n])
              ELSE IsCommitResult(results[r][n])

\* C5 witness: the first group failed at its values source and the group
\* after it still got a result
C5_Witness ==
  /\ pc[1] = "done" /\ sel[1] = <<"g2", "g1">>
  /\ results[1]["g2"] = ErrorEntry("failed to clone values repository acme/v2")
  /\ ~IsErrorEntry(results[1]["g1"])

OutputURL(group) == GetRepoURL(group.OutputRepo.Owner, group.OutputRepo.Repo)

\* C6: in preview mode, after a render, the group's result is all_new with
\* the extracted keys of the rendered document when the remote output branch
\* has no file at the target path, and the comparison of that file with the
\* rendered document when it has one.
C6_PreviewResult ==
  [][\A r \in Slots :
       (pc[r] = "previewCompare" /\ pc'[r] # "previewCompare") =>
         LET group == frame[r].group
             path == outputPath(group.OutputRepo)
             files == remote[OutputURL(group)]
             rendered == frame[r].yamlOutput
             entry == results'[r][groupName(r)]
         IN IF path \notin DOMAIN files
            THEN IF ExtractKeys(rendered).err THEN IsErrorEntry(entry)
                 ELSE entry = [changes |-> [all_new |-> TRUE,
                                            keys |-> ExtractKeys(rendered).keys]]
            ELSE IF Unmarshal(files[path]).err \/ Unmarshal(rendered).err
                 THEN IsErrorEntry(entry)
                 ELSE \E o \in Orders :
                        entry = [changes |->
                                   [diff |-> CompareYAML(files[path], rendered, o).diff]]]_vars

\* C6 witness: one preview answered all_new for a group without a file and a
\* non-empty diff for a group with one
C6_Witness ==
  /\ pc[1] = "done" /\ req[1].kind = "preview" /\ sel[1] = <<"g2", "g1">>
  /\ IsPreviewResult(results[1]["g2"]) /\ IsPreviewResult(results[1]["g1"])
  /\ "all_new" \in DOMAIN results[1]["g2"].changes
  /\ "diff" \in DOMAIN results[1]["g1"].changes
  /\ DOMAIN results[1]["g1"].changes.diff # {}

\* C7: a preview request never writes the rendered bytes and never commits
\* or pushes; no remote repository changes while it is served.
C7_PreviewLeavesRemotes ==
  [][\A r \in Slots :
       req'[r].kind = "preview" =>
         /\ remote' = remote
         /\ \A i \in DOMAIN trace'[r] :
              trace'[r][i].op \notin {"WriteFile", "CommitAndPush"}]_vars

\* C7 witness: a preview that went through both groups, one with a result
\* and one with an error
C7_Witness ==
  /\ pc[1] = "done" /\ req[1].kind = "preview" /\ status[1] = 200
  /\ sel[1] = <<"g1", "g2">>
  /\ \E n \in DOMAIN results[1] : IsPreviewResult(results[1][n])
  /\ \E n \in DOMAIN results[1] : IsErrorEntry(results[1][n])

\* C8: the reported content_changed is true when the output target has no
\* file, and otherwise true exactly when the bytes of that file differ from
\* the rendered bytes.
C8_ContentChangedBytewise ==
  [][\A r \in Slots :
       (pc[r] = "commitAndPush" /\ pc'[r] # "commitAndPush"
          /\ IsCommitResult(results'[r][groupName(r)])) =>
         LET group == frame[r].group
             path == outputPath(group.OutputRepo)
             files == remote[OutputURL(group)]
         IN results'[r][groupName(r)].content_changed =
              (path \notin DOMAIN files \/ files[path] # frame[r].yamlOutput)]_vars

\* C8 witness: a commit over a file that parses to the same document but has
\* other bytes reported a change
C8_Witness ==
  /\ pc[1] = "done" /\ req[1].kind = "commit" /\ started = 1
  /\ "g1" \in DOMAIN results[1] /\ IsCommitResult(results[1]["g1"])
  /\ results[1]["g1"].content_changed
  /\ remote[OutputURL(Groups[1])][outputPath(Groups[1].OutputRepo)] = MappingBytes(DocA, 2)
  /\ fs[outputRepoPath(Groups[1].OutputRepo)].base
       = (outputPath(Groups[1].OutputRepo) :> MappingBytes(DocA, 1))

C10_RejectedBeforeProcessing ==
  \A r \in Slots :
    (/\ pc[r] # "idle"
     /\ \/ req[r].branch = ""
        \/ req[r].kind = "commit" /\ req[r].message = "") =>
      /\ pc[r] = "done"
      /\ status[r] = 400
      /\ trace[r] = <<>>
      /\ results[r] = <<>>

\* C10 witness: a commit with a branch and groups but no message was rejected
C10_Witness ==
  /\ pc[1] = "done" /\ status[1] = 400
  /\ req[1].kind = "commit" /\ ~req[1].badJSON
  /\ req[1].branch = "main" /\ req[1].message = "" /\ req[1].groups = <<"g1">>

\* ------------------------------------------------------------------------
\* Claims about the configuration
\* ------------------------------------------------------------------------
\* the configuration a finished call of LoadConfig accepted
Accepted == loaded.op # "none" /\ ~loaded.res.err

\* C14: a configuration accepted by LoadConfig has at least one group; every
\* group has a name, at least one values source, owner, repo and path in
\* every values source, owner and repo in the output target; every branch
\* and the output filename are non-empty after loading.
C14_AcceptedConfigValid ==
  Accepted =>
    LET groups == loaded.res.config.Groups IN
    /\ Len(groups) > 0
    /\ \A i \in DOMAIN groups :
         /\ groups[i].Name # ""
         /\ Len(groups[i].ValuesRepos) > 0
         /\ \A j \in DOMAIN groups[i].ValuesRepos :
              LET repo == groups[i].ValuesRepos[j] IN
              repo.Owner # "" /\ repo.Repo # "" /\ repo.Path # "" /\ repo.Branch # ""
         /\ groups[i].OutputRepo.Owner # "" /\ groups[i].OutputRepo.Repo # ""
         /\ groups[i].OutputRepo.Branch # "" /\ groups[i].OutputRepo.Filename # ""

\* C14 witness: the prefixed variables gave a group whose values branch and
\* output filename were written empty and were defaulted on loading
C14_Witness ==
  /\ loaded.op = "LoadConfig" /\ ~loaded.res.err
  /\ configFile.kind = "missing" /\ configGroupsEnv.kind = "unset"
  /\ environ = <<PrefixedGroup("g1", << <<"acme", "/", "v1", ":", "values.yaml", ":">> >>,
                               <<"acme", "/", "o1", ":", "k8s", "/", ":">>)>>
  /\ loaded.res.config.Groups[1].ValuesRepos[1].Branch = "main"
  /\ loaded.res.config.Groups[1].OutputRepo = OutputRepo("acme", "o1", "k8s", "generated.yaml", "main")

\* C15: the group names of an accepted configuration are pairwise distinct,
\* so the list of groups has no name twice and a name resolves to the only
\* group that has it.
C15_GroupNamesUnique ==
  Accepted =>
    LET groups == loaded.res.config.Groups IN
    \A i, j \in DOMAIN groups : groups[i].Name = groups[j].Name => i = j

ExternalOps == {"GetRepository", "CloneRepository", "TemplateChart", "ReadFile", "WriteFile",
                "CommitAndPush"}

\* the operations logged by the step being taken
NewOps(r) == SubSeq(trace'[r], Len(trace[r]) + 1, Len(trace'[r]))

\* C11: a name that no configured group has gets the group-not-found error
\* as its entry, and nothing else happens for it: no GitHub call, no clone,
\* no render, no write, no push; the handler goes on to the next name.
C11_UnknownGroupNoOperation ==
  [][\A r \in Slots :
       (/\ pc[r] = "process" /\ pc'[r] # "idle"
        /\ \A i \in DOMAIN Groups : Groups[i].Name # groupName(r)) =>
         /\ (trace'[r] # trace[r] =>
               /\ NewOps(r) = <<Op("findConfigGroup", groupName(r), FALSE)>>
               /\ results'[r] = [n \in DOMAIN results[r] \cup {groupName(r)} |->
                                   IF n = groupName(r)
                                   THEN ErrorEntry("configuration group not found: "
                                                   \o groupName(r))
                                   ELSE results[r][n]]
               /\ pc'[r] \in {"process", "respond"})
         /\ fs' = fs /\ remote' = remote]_vars

\* C11 witness: a request for an unknown name and a known one was answered;
\* the unknown name cost one lookup and the known one went on to its result
C11_Witness ==
  /\ pc[1] = "done" /\ sel[1] = <<"nope", "g2">>
  /\ results[1]["nope"] = ErrorEntry("configuration group not found: nope")
  /\ ~IsErrorEntry(results[1]["g2"])
  /\ trace[1][1] = Op("findConfigGroup", "nope", FALSE)
  /\ trace[1][2] = Op("findConfigGroup", "g2", TRUE)

\* C12: once the chart checkout is made, a checkout root without Chart.yaml
\* or without templates ends the group with the chart-not-found error as its
\* entry; no values source is cloned and the renderer is not invoked.
C12_ChartMarkersRequired ==
  [][\A r \in Slots :
       (/\ pc[r] = "statChart" /\ pc'[r] # "statChart"
        /\ \/ "Chart.yaml" \notin DOMAIN fs[templateRepoPath(r)].files
           \/ "templates" \notin DOMAIN fs[templateRepoPath(r)].files) =>
         /\ groupName(r) \in DOMAIN results'[r]
         /\ results'[r][groupName(r)] \in
              {ErrorEntry("Chart.yaml not found in repository root"),
               ErrorEntry("templates directory not found")}
         /\ pc'[r] \in {"process", "respond"}
         /\ NewOps(r) = <<>>
         /\ fs' = fs /\ remote' = remote]_vars

\* C12 witness: a request for one group whose chart checkout had Chart.yaml
\* but no templates ended after the chart clone
C12_Witness ==
  /\ pc[1] = "done" /\ sel[1] = <<"g1">>
  /\ results[1]["g1"] = ErrorEntry("templates directory not found")
  /\ trace[1] = <<Op("findConfigGroup", "g1", TRUE),
                  Op("GetRepository", TemplateURL, TRUE),
                  Op("CloneRepository", GetLocalRepoPath(RepoOwner, RepoName, "main"), TRUE)>>

\* ------------------------------------------------------------------------
\* Claims about parse errors and the levels of a comparison
\* ------------------------------------------------------------------------
\* C13: ExtractKeys returns an error and no KeyTree when its input is not a
\* YAML mapping at the top level, and CompareYAML returns an error and no
\* diff when either input is not one.
C13_NonMappingIsParseError ==
  /\ (out.op = "ExtractKeys" /\ newYAML.top # "mapping") =>
       out.res.err /\ out.res.keys = <<>>
  /\ (out.op = "ExtractKeysOld" /\ oldYAML.top # "mapping") =>
       out.res.err /\ out.res.keys = <<>>
  /\ (out.op = "CompareYAML" /\ (oldYAML.top # "mapping" \/ newYAML.top # "mapping")) =>
       out.res.err /\ out.res.diff = <<>>

RECURSIVE Levels(_, _, _)
\* the nesting levels a comparison reaches: the top level, and below a key
\* present on both sides every level where both values were decoded as
\* string-keyed mappings
Levels(old, new, prefix) ==
  {[prefix |-> prefix, old |-> old, new |-> new]}
    \cup UNION {Levels(old[k].m, new[k].m, PathOf(prefix, k)) :
                  k \in {h \in DOMAIN old \cap DOMAIN new :
                           /\ old[h].t = "map[string]interface{}"
                           /\ new[h].t = "map[string]interface{}"}}

\* the levels of the comparison of oldYAML with newYAML
ReachedLevels == Levels(Unmarshal(oldYAML).data, Unmarshal(newYAML).data, <<>>)

\* the keys of the reached levels that sit at a path
KeysAt(path) ==
  {lk \in UNION {{<<L, k>> : k \in DOMAIN L.old \cup DOMAIN L.new} : L \in ReachedLevels} :
     PathOf(lk[1].prefix, lk[2]) = path}

\* how many entries with the label the comparison emitted at the path
Emitted(path, label) ==
  Cardinality({i \in DOMAIN out.assigned :
                 out.assigned[i] = [path |-> path, label |-> label]})

\* every path a key of a reached level has, and every path with an entry
ComparedPaths ==
  {PathOf(L.prefix, k) : L \in ReachedLevels, k \in KeyUniverse}
    \cup {out.assigned[i].path : i \in DOMAIN out.assigned}

C20_NoEntryForMappingParent ==
  (out.op = "CompareYAML" /\ ~out.res.err) =>
    \A k \in DOMAIN oldYAML.m \cap DOMAIN newYAML.m :
      (oldYAML.m[k].kind = "mapping" /\ newYAML.m[k].kind = "mapping") =>
        Emitted(k, "added") + Emitted(k, "removed") + Emitted(k, "changed")
          <= Cardinality(KeysAt(k)) - 1

\* C18: in commit mode, for a group whose output target is not the chart
\* repository, the message handed to the commit is the user's message
\* followed by the chart repository's owner and name, the requested branch
\* and the group name.
C18_CommitMessageAnnotated ==
  [][\A r \in Slots :
       (/\ pc[r] = "commitAndPush" /\ pc'[r] # "commitAndPush"
        /\ OutputURL(frame[r].group) # TemplateURL) =>
         /\ Len(NewOps(r)) = 1
         /\ NewOps(r)[1].op = "CommitAndPush"
         /\ NewOps(r)[1].message =
              req[r].message \o " (generated from " \o RepoOwner \o "/" \o RepoName
                \o " branch: " \o req[r].branch \o ", group: " \o frame[r].group.Name \o ")"]_vars

\* C18 witness: a commit of g1 from branch main with the message deploy was
\* pushed with the annotated message
C18_Witness ==
  /\ pc[1] = "done" /\ req[1].kind = "commit" /\ sel[1] = <<"g1">>
  /\ IsCommitResult(results[1]["g1"])
  /\ trace[1][Len(trace[1])] =
       CommitOp(outputRepoPath(Groups[1].OutputRepo),
                "deploy (generated from acme/chart branch: main, group: g1)", TRUE, TRUE)

\* ------------------------------------------------------------------------
\* Claims about concurrent requests
\* ------------------------------------------------------------------------
\* the handler of the slot is between accepting its request and answering
InFlight(r) == pc[r] \notin {"idle", "done"}

\* the checkout directories the request has cloned into so far
ClonedDirs(r) ==
  {trace[r][i].arg : i \in {j \in DOMAIN trace[r] : trace[r][j].op = "CloneRepository"}}

\* C17: two requests in flight for different groups or for different
\* branches use no common checkout directory.
C17_DisjointCheckouts ==
  \A r1, r2 \in Slots :
    (/\ r1 # r2 /\ InFlight(r1) /\ InFlight(r2)
     /\ \/ Elems(sel[r1]) \cap Elems(sel[r2]) = {}
        \/ req[r1].branch # req[r2].branch) =>
      ClonedDirs(r1) \cap ClonedDirs(r2) = {}

\* ------------------------------------------------------------------------
\* Claims about the comparison of values present on both sides
\* ------------------------------------------------------------------------
\* the YAML kind of a decoded value
KindOf(v) ==
  CASE v.t \in {"map[string]interface{}", "map[interface{}]interface{}"} -> "mapping"
    [] v.t = "[]interface{}" -> "sequence"
    [] OTHER -> "scalar"

\* the keys at a path that both sides of their level have
BothAt(path) ==
  {lk \in KeysAt(path) : lk[2] \in DOMAIN lk[1].old \cap DOMAIN lk[1].new}

\* C21: a key present on both sides whose value changed kind (mapping,
\* sequence, scalar) yields exactly one entry, changed, at its path, and
\* nothing is emitted beneath it: per path there is a changed entry for each
\* such key, no more when all keys at the path are of this sort, and every
\* entry belongs to a key of a level the comparison reached.
C21_KindChangeIsOneChanged ==
  (out.op = "CompareYAML" /\ ~out.res.err) =>
    \A path \in ComparedPaths :
      LET both == BothAt(path)
          differs == {lk \in both :
                        KindOf(lk[1].old[lk[2]]) # KindOf(lk[1].new[lk[2]])}
      IN /\ Emitted(path, "changed") >= Cardinality(differs)
         /\ (both = differs) => Emitted(path, "changed") = Cardinality(differs)
         /\ Emitted(path, "added") + Emitted(path, "removed") + Emitted(path, "changed")
              <= Cardinality(KeysAt(path))

RECURSIVE SameValue(_, _)
\* equality of two values: sequences by length and position, scalars by
\* their text
SameValue(a, b) ==
  IF a.t = "[]interface{}" /\ b.t = "[]interface{}"
  THEN /\ Len(a.s) = Len(b.s)
       /\ \A i \in DOMAIN a.s : SameValue(a.s[i], b.s[i])
  ELSE a = b

\* C22: a key present on both sides whose values are both sequences or both
\* scalars yields one changed entry at its path when the values are unequal
\* and nothing when they are equal.
C22_LeafChangedIffUnequal ==
  (out.op = "CompareYAML" /\ ~out.res.err) =>
    \A path \in ComparedPaths :
      LET both == BothAt(path)
          leaves == {lk \in both :
                       /\ KindOf(lk[1].old[lk[2]]) = KindOf(lk[1].new[lk[2]])
                       /\ KindOf(lk[1].new[lk[2]]) # "mapping"}
          unequal == {lk \in leaves : ~SameValue(lk[1].old[lk[2]], lk[1].new[lk[2]])}
      IN /\ Emitted(path, "changed") >= Cardinality(unequal)
         /\ (both = leaves) => Emitted(path, "changed") = Cardinality(unequal)

\* ------------------------------------------------------------------------
\* Claims about the steps of one group's run
\* ------------------------------------------------------------------------
\* the operations of one run of a group in the order of the claim, for the
\* selected name and the request
ExpectedSteps(name, q) ==
  LET f == findConfigGroup(name)
      g == f.group
      step(op, arg) == [op |-> op, arg |-> arg]
  IN <<step("findConfigGroup", name)>> \o
     IF f.err THEN <<>>
     ELSE <<step("GetRepository", TemplateURL),
            step("CloneRepository", GetLocalRepoPath(RepoOwner, RepoName, q.branch))>>
          \o [i \in DOMAIN g.ValuesRepos |->
                step("CloneRepository", valuesRepoPath(g.ValuesRepos[i]))]
          \o <<step("TemplateChart", GetLocalRepoPath(RepoOwner, RepoName, q.branch)),
               step("CloneRepository", outputRepoPath(g.OutputRepo)),
               step("ReadFile", outputPath(g.OutputRepo))>>
          \o IF q.kind = "commit"
             THEN <<step("WriteFile", outputPath(g.OutputRepo)),
                    step("CommitAndPush", outputRepoPath(g.OutputRepo))>>
             ELSE <<>>

\* where the runs of the groups begin in a trace
RunStarts(tr) == {i \in DOMAIN tr : tr[i].op = "findConfigGroup"}

\* the operations of the run that begins at i
RunAt(tr, i) ==
  LET later == {j \in RunStarts(tr) : j > i}
      last == IF later = {} THEN Len(tr)
              ELSE (CHOOSE j \in later : \A h \in later : j <= h) - 1
  IN SubSeq(tr, i, last)

\* the positions of a run that come after the chart markers were checked
AfterStatChart ==
  {"cloneValues", "template", "cloneOutput", "previewCompare", "readExisting",
   "writeFile", "commitAndPush"}

\* C23: the operations of every run of a group are an initial part of the
\* fixed sequence resolve, chart checkout, values checkouts, render, output
\* checkout, read, (commit mode) write, commit-and-push; a failed operation
\* is the last one of its run (a target file that is not there to read is
\* not a failure); and a run goes past the marker check only with both chart
\* markers in its chart checkout.
C23_FixedStepOrder ==
  \A r \in Slots :
    /\ trace[r] # <<>> => 1 \in RunStarts(trace[r])
    /\ \A i \in RunStarts(trace[r]) :
         LET run == RunAt(trace[r], i)
             expected == ExpectedSteps(run[1].arg, req[r])
         IN /\ Len(run) <= Len(expected)
            /\ \A j \in DOMAIN run :
                 /\ run[j].op = expected[j].op
                 /\ run[j].arg = expected[j].arg
                 /\ j < Len(run) => (run[j].ok \/ run[j].op = "ReadFile")
    /\ pc[r] \in AfterStatChart =>
         {"Chart.yaml", "templates"} \subseteq DOMAIN fs[templateRepoPath(r)].files

\* C23 witness: a commit of g1 whose rendering failed has been answered; the
\* run ended with the render and the output target was not touched
C23_Witness ==
  /\ pc[1] = "done" /\ req[1].kind = "commit" /\ sel[1] = <<"g1">>
  /\ results[1]["g1"] = ErrorEntry("failed to template chart")
  /\ Len(trace[1]) = 5
  /\ trace[1][5].op = "TemplateChart" /\ ~trace[1][5].ok
  /\ ~fs[outputRepoPath(Groups[1].OutputRepo)].exists

\* the group whose run holds position i of a trace
RunGroup(tr, i) ==
  LET start == CHOOSE j \in RunStarts(tr) :
                 j <= i /\ \A h \in RunStarts(tr) : h <= i => h <= j
  IN findConfigGroup(tr[start].arg).group

\* C24: every rendering is handed one values file per values source of its
\* group, in the configured order and never an empty list, and when helm is
\* run its arguments carry these files as -f arguments in that same order.
C24_ValuesInConfiguredOrder ==
  \A r \in Slots :
    \A i \in DOMAIN trace[r] :
      trace[r][i].op = "TemplateChart" =>
        LET sources == RunGroup(trace[r], i).ValuesRepos
            handed == trace[r][i].valuesPaths
            args == trace[r][i].args
        IN /\ Len(handed) = Len(sources)
           /\ Len(handed) > 0
           /\ \A n \in DOMAIN sources :
                handed[n] = PathJoin(valuesRepoPath(sources[n]), sources[n].Path)
           /\ args # <<>> =>
                /\ Len(args) = 4 + 2 * Len(sources)
                /\ SubSeq(args, 1, 4) = <<"template", ChartDir, "--output-dir", OutputDir>>
                /\ \A n \in DOMAIN sources :
                     /\ args[4 + 2 * n - 1] = "-f"
                     /\ args[4 + 2 * n] = handed[n]

\* C24 witness: g2, whose values sources are acme/v3 and then acme/v2, has
\* been rendered with the two files in this order
C24_Witness ==
  /\ pc[1] = "cloneOutput" /\ groupName(1) = "g2"
  /\ trace[1][Len(trace[1])].op = "TemplateChart"
  /\ trace[1][Len(trace[1])].ok
  /\ trace[1][Len(trace[1])].args =
       <<"template", "helm-chart", "--output-dir", "helm-output",
         "-f", "/tmp/values-acme-v3-main/env/values.yaml",
         "-f", "/tmp/values-acme-v2-main/values.yaml">>

\* ------------------------------------------------------------------------
\* Claims about the commit of a group
\* ------------------------------------------------------------------------
\* the rendered bytes are in the target file of the group's output checkout
OutputWritten(files, r) ==
  LET outputRepo == frame[r].group.OutputRepo
      dir == files[outputRepoPath(outputRepo)]
  IN /\ outputPath(outputRepo) \in DOMAIN dir.files
     /\ dir.files[outputPath(outputRepo)] = frame[r].yamlOutput

\* C25: in commit mode a successful write leaves the rendered bytes in the
\* target file and is followed by the call of commit-and-push, whatever
\* contentChanged says; and unless something outside goes wrong during that
\* call, the push is attempted.
C25_PushAfterWriteAlways ==
  [][\A r \in Slots :
       /\ (pc[r] = "writeFile" /\ pc'[r] # "writeFile" /\ NewOps(r)[1].ok) =>
            pc'[r] = "commitAndPush" /\ OutputWritten(fs', r)
       /\ (pc[r] = "commitAndPush" /\ pc'[r] # "commitAndPush") =>
            /\ OutputWritten(fs, r)
            /\ Len(NewOps(r)) = 1 /\ NewOps(r)[1].op = "CommitAndPush"
            /\ faults' = faults => NewOps(r)[1].pushed]_vars

\* ------------------------------------------------------------------------
\* Claims about the selection of groups
\* ------------------------------------------------------------------------
\* C26: with an empty selection the handler runs over the names of all
\* configured groups, and processConfigGroup resolves each name with
\* findConfigGroup; every configured group is then run exactly once.
C26_EveryGroupRunOnce ==
  loaded.op = "ListConfigGroups" =>
    LET config == loaded.res.config
        selectedGroups == loaded.names
        resolved == [i \in DOMAIN selectedGroups |-> findGroupIn(config, selectedGroups[i])]
    IN \A g \in DOMAIN config.Groups :
         Cardinality({i \in DOMAIN selectedGroups :
                        ~resolved[i].err /\ resolved[i].index = g}) = 1

\* ------------------------------------------------------------------------
\* Claims about retries
\* ------------------------------------------------------------------------
\* C27: within one run of a group no operation is attempted twice, so a
\* failed one is never attempted again; and a run that ends with a result
\* has attempted each of its operations exactly once: the chart checkout,
\* every values checkout, the render, the output checkout, and in commit
\* mode the write and the commit-and-push.
C27_NoRetries ==
  \A r \in Slots :
    \A i \in RunStarts(trace[r]) :
      LET run == RunAt(trace[r], i)
          name == run[1].arg
          Count(op, arg) ==
            Cardinality({j \in DOMAIN run : run[j].op = op /\ run[j].arg = arg})
          ended == \/ \E h \in RunStarts(trace[r]) : h > i
                   \/ pc[r] \in {"respond", "done"}
          expected == ExpectedSteps(name, req[r])
      IN /\ \A j \in DOMAIN run : Count(run[j].op, run[j].arg) = 1
         /\ (ended /\ ~IsErrorEntry(results[r][name])) =>
              \A n \in DOMAIN expected : Count(expected[n].op, expected[n].arg) = 1

\* C27 witness: a commit of g2 and g1 was answered; g2 ended at the failed
\* checkout of its second values source, which was attempted once, and g1
\* went through all its operations
C27_Witness ==
  /\ pc[1] = "done" /\ req[1].kind = "commit" /\ sel[1] = <<"g2", "g1">>
  /\ results[1]["g2"] = ErrorEntry("failed to clone values repository acme/v2")
  /\ IsCommitResult(results[1]["g1"])
  /\ Len(trace[1]) = 14
  /\ trace[1][5] = Op("CloneRepository", "/tmp/values-acme-v2-main", FALSE)
  /\ trace[1][14].op = "CommitAndPush" /\ trace[1][14].ok

\* ------------------------------------------------------------------------
\* Claims about the checkout directories of concurrent requests
\* ------------------------------------------------------------------------
\* the request is about to call CloneRepository
AtClone(r) ==
  \/ pc[r] \in {"cloneTemplate", "cloneOutput"}
  \/ pc[r] = "cloneValues" /\ frame[r].vi <= Len(frame[r].group.ValuesRepos)

\* the call of CloneRepository the request is about to make
CloneStep(r) ==
  /\ CloneTemplate(r) \/ CloneValues(r) \/ CloneOutput(r)
  /\ UNCHANGED <<xvars, lvars, uvars>>

\* C28: no lock protects a checkout directory: a request that is about to
\* call CloneRepository can always do so, whatever the other request is
\* doing with the same directory.
C28_NoCheckoutLock ==
  \A r \in Slots : AtClone(r) => ENABLED CloneStep(r)

\* C28 witness: two requests for the same branch; the first has cloned the
\* chart, found its markers and is about to render from it, and the second
\* request's clone, which failed, has meanwhile left the directory empty
C28_Witness ==
  /\ req[1].branch = req[2].branch
  /\ pc[1] = "template"
  /\ trace[2] # <<>>
  /\ trace[2][Len(trace[2])] = Op("CloneRepository", templateRepoPath(1), FALSE)
  /\ fs[templateRepoPath(1)].exists
  /\ ~fs[templateRepoPath(1)].git
  /\ "Chart.yaml" \notin DOMAIN fs[templateRepoPath(1)].files

\* ------------------------------------------------------------------------
\* Claims about the page
\* ------------------------------------------------------------------------
\* C29: every commit request the page sends is sent from the preview step,
\* and its branch and its set of groups are those of the most recent
\* successful preview.
C29_CommitsWhatWasPreviewed ==
  \A c \in call :
    c.kind = "commit" =>
      /\ c.step = "preview"
      /\ c.branch = previewed.branch
      /\ Elems(c.groups) = Elems(previewed.groups)

\* ------------------------------------------------------------------------
\* Claims about key extraction in commit mode
\* ------------------------------------------------------------------------
\* the request is past key extraction and works on the output target
AtOutput(r) == pc[r] \in {"cloneOutput", "readExisting", "writeFile", "commitAndPush"}

\* the operation is one on the group's output checkout
OnOutput(o, group) ==
  o.arg \in {outputRepoPath(group.OutputRepo), outputPath(group.OutputRepo)}

\* C30: in commit mode the run goes on from the render to the output target
\* only with a rendered document that is a mapping at the top level, holding
\* its redacted key tree; a run that ends with the extract error has cloned,
\* written and pushed nothing for the output target; and a successful commit
\* answers with exactly keys, message and content_changed, the keys being
\* the key tree of the rendered document.
C30_ExtractBeforeOutput ==
  [][\A r \in Slots :
       (req[r].kind = "commit" /\ pc[r] \notin {"idle", "process", "respond", "done"}) =>
         /\ (pc[r] = "template" /\ pc'[r] = "cloneOutput") =>
              /\ frame'[r].yamlOutput.top = "mapping"
              /\ frame'[r].keys = ExtractKeys(frame'[r].yamlOutput).keys
         /\ (\E i \in DOMAIN NewOps(r) : OnOutput(NewOps(r)[i], frame[r].group)) =>
              AtOutput(r)
         /\ (fs' # fs \/ remote' # remote) =>
              pc[r] \in {"cloneTemplate", "cloneValues"} \/ AtOutput(r)
         /\ (/\ pc'[r] \in {"process", "respond"}
             /\ results'[r][groupName(r)] = ErrorEntry("failed to extract keys")) =>
              /\ pc[r] = "template"
              /\ \A i \in DOMAIN NewOps(r) : NewOps(r)[i].op = "TemplateChart"
              /\ fs' = fs /\ remote' = remote
         /\ (/\ pc'[r] \in {"process", "respond"}
             /\ ~IsErrorEntry(results'[r][groupName(r)])) =>
              /\ pc[r] = "commitAndPush"
              /\ IsCommitResult(results'[r][groupName(r)])
              /\ ~ExtractKeys(frame[r].yamlOutput).err
              /\ results'[r][groupName(r)].keys = ExtractKeys(frame[r].yamlOutput).keys
              /\ results'[r][groupName(r)].content_changed \in BOOLEAN]_vars

====
